---- MODULE Spec2Model ----
(***************************************************************************)
(* rx-tiny-flux: the Store's action/state pipeline (src/src/store.js,      *)
(* third revision, lines 308-466), reducer composition (reducers.js),      *)
(* selector memoization (selectors.js) and effect registration.            *)
(*                                                                         *)
(* Objects are modelled with their identity: a slice object is a record    *)
(* [ref, val], a state container a record [ref, slices].  `===` on objects *)
(* is equality of refs; `undefined` is the object Undef with ref 0.        *)
(***************************************************************************)
EXTENDS Integers, Sequences, FiniteSets, TLC

\* ------------------------------------------------------------------ bounds
MaxDispatch == 2      \* external calls of dispatch
MaxReducers == 2      \* descriptors registered
MaxEffects  == 1      \* effects registered
MaxSubs     == 1      \* select subscriptions

\* ------------------------------------------------------------ the universe
Keys     == {"a", "b"}
Types    == {"INC", "X", "Y", "NOP"}
\* The types of the actions the application dispatches; Y is the effects' follow-up.
DispatchTypes == {"INC", "X", "NOP"}
NoCtx    == "null"
Contexts == {"app", "page"}
Undef    == [ref |-> 0, val |-> 0]
\* The components of the application: its App and a Page, before their hooks have run.
Components  == {"app", "page"}
NoComponent == [phase |-> "new", subscriptions |-> <<>>, onCall |-> FALSE, destroyed |-> 0]
\* No handler (find's undefined), and the Error thrown by on().
NoHandler   == [types |-> <<>>, add |-> 0, isCatchAll |-> FALSE, kind |-> "undefined"]
ConfigError == [types |-> <<>>, add |-> 0, isCatchAll |-> FALSE, kind |-> "Error"]
\* The completion of a call that threw instead of returning a value.
Thrown      == [ref |-> -1, val |-> 0]

Range(s) == {s[i] : i \in 1..Len(s)}

\* ---------------------------------------------------------------- actions.js
\* A property value: a number, an object (by its identity), undefined, or no property.
Absent == [k |-> "absent", v |-> 0]
NoProps == [type |-> "absent", payload |-> Absent, value |-> Absent]

\* The arguments of the creator calls: none, the number 10, and the objects {value: 5},
\* {type: 'X', value: 5} and {payload: 1}; `own` holds the argument's own enumerable
\* properties, which primitive values do not have.
Payloads ==
  { [val |-> [k |-> "undefined", v |-> 0], own |-> NoProps],
    [val |-> [k |-> "num", v |-> 10], own |-> NoProps],
    [val |-> [k |-> "obj", v |-> 51], own |-> [NoProps EXCEPT !.value = [k |-> "num", v |-> 5]]],
    [val |-> [k |-> "obj", v |-> 52],
     own |-> [NoProps EXCEPT !.type = "X", !.value = [k |-> "num", v |-> 5]]],
    [val |-> [k |-> "obj", v |-> 53], own |-> [NoProps EXCEPT !.payload = [k |-> "num", v |-> 1]]] }

\* createAction(type): the creator, a function with the property `type`.
CreateAction(type) == type

\* actionCreator = (payload) => ({ type, ...payload }): the properties of the object it
\* returns; the spread copies payload's own properties after `type`.
ActionCreator(creator, payload) ==
  [type |-> IF payload.own.type # "absent" THEN payload.own.type ELSE creator,
   payload |-> payload.own.payload,
   value |-> payload.own.value]

\* --------------------------------------------------------------- reducers.js
\* The `type` of an action creator; the anyAction token is a function without one.
CreatorType(creator) == IF creator = "anyAction" THEN "undefined" ELSE creator

\* Mutant: on without its test of the catch-all marker.
OnUnchecked(actionCreators, add) ==
  [types |-> [i \in 1..Len(actionCreators) |-> CreatorType(actionCreators[i])],
   add |-> add, isCatchAll |-> "anyAction" \in Range(actionCreators), kind |-> "on"]

\* on(...actionCreators, reducerFn).  The handler function is `add`: it returns a
\* new object whose value is state.value + add, or the very state when add = 0.
On(actionCreators, add) ==
  LET isCatchAll == "anyAction" \in Range(actionCreators) IN
  IF isCatchAll /\ Len(actionCreators) > 1
    THEN ConfigError
    ELSE [types |-> [i \in 1..Len(actionCreators) |-> CreatorType(actionCreators[i])],
          add |-> add, isCatchAll |-> isCatchAll, kind |-> "on"]

\* on(...actionCreators, reducerFn) with a reducerFn that throws.
OnThrow(actionCreators) == [On(actionCreators, 0) EXCEPT !.kind = "throws"]

\* handler.reducerFn(state, action)
HandlerFn(handler, state, fresh) ==
  IF handler.kind = "throws" THEN Thrown
  ELSE IF handler.add = 0 THEN state
  ELSE [ref |-> fresh, val |-> state.val + handler.add]

\* o => !o.isCatchAll
IsSpecific(o) == ~o.isCatchAll

\* ons.find(o => o.isCatchAll)
FindCatchAll(ons) ==
  LET idx == {i \in 1..Len(ons) : ons[i].isCatchAll} IN
  IF idx = {} THEN NoHandler ELSE ons[CHOOSE i \in idx : \A j \in idx : i <= j]

\* createReducer(featureKey, initialState, ...ons)
CreateReducer(featureKey, initialState, ons) ==
  [initialState |-> initialState, path |-> featureKey,
   specificHandlers |-> SelectSeq(ons, IsSpecific),
   catchAllHandler |-> FindCatchAll(ons)]

\* The index of the first specific handler whose types include the action's type, or 0.
FirstMatch(specificHandlers, type) ==
  LET idx == {i \in 1..Len(specificHandlers) : type \in Range(specificHandlers[i].types)} IN
  IF idx = {} THEN 0 ELSE CHOOSE i \in idx : \A j \in idx : i <= j

\* Mutant: the default parameter replaces the slice on every call.
ReducerFnFromInitial(r, stateSlice, action, fresh) ==
  LET state == r.initialState
      m == FirstMatch(r.specificHandlers, action.type)
  IN IF m # 0 THEN HandlerFn(r.specificHandlers[m], state, fresh)
     ELSE IF r.catchAllHandler # NoHandler THEN HandlerFn(r.catchAllHandler, state, fresh)
     ELSE state

\* Mutant: the catch-all handler is consulted before the specific ones.
ReducerFnCatchAllFirst(r, stateSlice, action, fresh) ==
  LET state == IF stateSlice = Undef THEN r.initialState ELSE stateSlice
      m == FirstMatch(r.specificHandlers, action.type)
  IN IF r.catchAllHandler # NoHandler THEN HandlerFn(r.catchAllHandler, state, fresh)
     ELSE IF m # 0 THEN HandlerFn(r.specificHandlers[m], state, fresh)
     ELSE state

\* Mutant: the state parameter without its default.
ReducerFnNoDefault(r, stateSlice, action, fresh) ==
  LET state == stateSlice
      m == FirstMatch(r.specificHandlers, action.type)
  IN IF m # 0 THEN HandlerFn(r.specificHandlers[m], state, fresh)
     ELSE IF r.catchAllHandler # NoHandler THEN HandlerFn(r.catchAllHandler, state, fresh)
     ELSE state

\* Mutant: the loop does not return at the first match, so that the catch-all handler
\* is applied to the result of the specific one.
ReducerFnFallThrough(r, stateSlice, action, fresh) ==
  LET state == IF stateSlice = Undef THEN r.initialState ELSE stateSlice
      m == FirstMatch(r.specificHandlers, action.type)
      first == IF m # 0 THEN HandlerFn(r.specificHandlers[m], state, fresh) ELSE state
  IN IF r.catchAllHandler # NoHandler THEN HandlerFn(r.catchAllHandler, first, fresh)
     ELSE first

\* reducerFn = (state = initialState, action) => ...
ReducerFn(r, stateSlice, action, fresh) ==
  LET state == IF stateSlice = Undef THEN r.initialState ELSE stateSlice
      m == FirstMatch(r.specificHandlers, action.type)
  IN IF m # 0 THEN HandlerFn(r.specificHandlers[m], state, fresh)
     ELSE IF r.catchAllHandler # NoHandler THEN HandlerFn(r.catchAllHandler, state, fresh)
     ELSE state

\* The descriptors the application registers.
InitialA == [ref |-> 1, val |-> 0]
InitialB == [ref |-> 2, val |-> 0]
ReducerA == CreateReducer("a", InitialA, <<On(<<"INC", "Y">>, 1)>>)
ReducerB == CreateReducer("b", InitialB, <<On(<<"X">>, 1)>>)
\* A descriptor for b whose transition throws on X.
ReducerT == CreateReducer("b", InitialB, <<OnThrow(<<"X">>), On(<<"INC">>, 1)>>)
\* The argument lists of the application's registerReducers calls.
RegisterChoices == {<<ReducerA>>, <<ReducerB>>, <<ReducerA, ReducerB>>}

\* ------------------------------------------------------------------ store.js
VARIABLES
  state,       \* _state$ : the BehaviorSubject's current value
  scanAcc,     \* the accumulator held by scan
  reducers,    \* _reducers
  context,     \* _context
  effects,     \* the effects subscribed to _actions$, in subscription order
  subs,        \* the select subscriptions on _state$, in subscription order
  stack,       \* the _actions$.next calls in progress, innermost first
  pending,     \* emissions of asynchronous effects not yet delivered
  nextRef,     \* the next fresh object identity
  initialState,\* the object the caller passed to the constructor
  actionLog,   \* history: the actions passed to _actions$.next, in order
  published,   \* history: the values _state$ held, in order, each with what passed it
               \* (startWith, scan, registerReducers) and Len(actionLog) at that moment
  emissions,   \* history: the values emitted by effects' output streams
  dispatched,  \* history: the actions the application passed to dispatch, in order
  regAt,       \* history: per key, Len(actionLog) when a reducer for it was first registered
  effAt,       \* history: per effect, Len(actionLog) when it was registered
  thrownError, \* _state$.thrownError, "none" while _state$.hasError is false
  scanStopped, \* whether the scan pipeline's subscription to _actions$ has ended
  thrown,      \* history: the exceptions thrown by transitions and selector functions
  raised,      \* history: the exceptions that left a call of the store to its caller
  unhandled,   \* history: the errors no observer handles, thrown in a later turn
  notifying,   \* the _state$.next calls (and replays) a callback has interrupted, innermost first
  reentries,   \* history: the dispatch calls made inside a call into the store
  listeners,   \* the subscriptions on actions$ made by listen, in subscription order
  effReceived, \* history: per effect, the actions _actions$ passed to it (indices in actionLog)
  effError,    \* the effects whose stream has ended with an error
  components,  \* the App and Page instances the plugin is mixed into
  sent,        \* history: the last call of a component's dispatch or onAction
  calls,       \* history: the calls of context.call made by propagateAction
  pairs,       \* history: the pairs withLatestFromStore passed downstream
  selector,    \* a selector made by createSelector: its input selectors and memo state
  selCalls,    \* history: the calls of `selector`, in order
  created,     \* history: how the createSelector call ended, "none" before it
  inner,       \* a selector made by createSelector that is an input of `selector`
  ons,         \* the bindings passed to createReducer
  redCall,     \* history: the last call of the reducerFn made from `ons`
  onCalls,     \* history: the calls of on, each with its arguments and how it ended
  made,        \* history: the calls of action creators, each with the action it returned
  fn,          \* the function the application passes to createEffect, with its _rxEffect
  fnCalls      \* history: what the application did with `fn`, and what became of it

vars == <<state, scanAcc, reducers, context, effects, subs, stack, pending,
          nextRef, initialState, actionLog, published, emissions, dispatched,
          regAt, effAt, thrownError, scanStopped, thrown, raised, unhandled,
          notifying, reentries, listeners, effReceived, effError,
          components, sent, calls, pairs,
          selector, selCalls, created, inner, ons, redCall, onCalls, made, fn, fnCalls>>

storeVars == <<state, scanAcc, reducers, context, effects, subs, stack, pending,
               nextRef, initialState, actionLog, published, emissions, dispatched,
               regAt, effAt, thrownError, scanStopped, thrown, raised, unhandled,
               notifying, reentries, listeners, effReceived, effError,
               components, sent, calls, pairs>>
errorVars == <<thrownError, scanStopped, thrown, raised, unhandled>>
observerVars == <<listeners, effReceived, effError>>
pluginVars == <<components, sent, calls, pairs>>
selectorVars == <<selector, selCalls, created, inner>>
reducerVars == <<ons, redCall, onCalls>>
creatorVars == <<made, fn, fnCalls>>
pureVars == <<selectorVars, reducerVars, creatorVars>>

EmptySlices == [k \in Keys |-> Undef]

\* The initial states a caller may pass: {} and {a: {value: 5}}.
CallerStates ==
  { [ref |-> 3, slices |-> EmptySlices],
    [ref |-> 3, slices |-> [EmptySlices EXCEPT !["a"] = [ref |-> 4, val |-> 5]]] }

\* structuredClone(initialState): every object of the clone is a new object.
StructuredClone(c) ==
  [ref |-> c.ref + 3,
   slices |-> [k \in Keys |-> IF c.slices[k] = Undef THEN Undef
                              ELSE [ref |-> c.slices[k].ref + 3, val |-> c.slices[k].val]]]

FirstFreeRef == 9

\* The selectors of the application: s => s, s => s.a, s => s.a?.value; and those of
\* its tests and effects, s => s.a.value ("aDeep") and s => s.a?.value > 0 ("aPositive").
Selectors == {"whole", "a", "aValue"}
\* s => s.a.value, which throws a TypeError while s.a is undefined.
SelThrown == [k |-> "throw", v |-> 0]
SelectorFn(sel, s) ==
  CASE sel = "whole"  -> [k |-> "ref", v |-> s.ref]
    [] sel = "aDeep"  -> IF s.slices["a"] = Undef THEN SelThrown
                         ELSE [k |-> "num", v |-> s.slices["a"].val]
    [] sel = "aValue" -> IF s.slices["a"] = Undef THEN [k |-> "undefined", v |-> 0]
                         ELSE [k |-> "num", v |-> s.slices["a"].val]
    [] sel = "aPositive" -> IF s.slices["a"] = Undef THEN [k |-> "bool", v |-> 0]
                            ELSE [k |-> "bool", v |-> IF s.slices["a"].val > 0 THEN 1 ELSE 0]
    [] OTHER          -> IF s.slices[sel] = Undef THEN [k |-> "undefined", v |-> 0]
                         ELSE [k |-> "ref", v |-> s.slices[sel].ref]

\* Mutant: select without distinctUntilChanged.
DistinctUntilChangedOmitted(last, value) == TRUE

\* distinctUntilChanged: whether a value following `last` is passed on.
DistinctUntilChanged(last, value) == value # last

\* What the callback of a select subscription does with a value: nothing that reaches
\* the store ("none"); a dispatch of an action of `type` when the value is `on`
\* ("dispatch"); or, for the subscription withLatestFromStore makes for the action
\* `source` that effect `effect` received, subscriber.next and subscriber.complete
\* ("operator"), `done` telling whether that subscriber has completed.
NoCallback ==
  [kind |-> "none", type |-> "none", on |-> [k |-> "none", v |-> 0], effect |-> 0,
   source |-> 0, done |-> FALSE]

\* Whether the value v of _state$ reaches the callback of a select subscription.
Receives(sub, v) ==
  sub.error = "none" /\ ~sub.closed /\ DistinctUntilChanged(sub.last, SelectorFn(sub.sel, v))

\* One select subscription receiving the value v of _state$.
SubNext(sub, v) ==
  LET value == SelectorFn(sub.sel, v) IN
  IF Receives(sub, v)
    THEN [sub EXCEPT !.last = value, !.received = Append(@, value)]
    ELSE sub

\* Whether the callback, called with the selected value of v, calls into the store.
Reenters(sub, v) ==
  /\ Receives(sub, v)
  /\ \/ sub.cb.kind = "dispatch" /\ SelectorFn(sub.sel, v) = sub.cb.on
     \/ sub.cb.kind = "operator" /\ ~sub.cb.done

\* The first of the observers ss[from..] of _state$ whose callback calls into the store
\* when it is passed v, or 0.
FirstCall(ss, from, v) ==
  LET idx == {i \in from..Len(ss) : Reenters(ss[i], v)} IN
  IF idx = {} THEN 0 ELSE CHOOSE i \in idx : \A j \in idx : i <= j

\* Mutant: a next call that a callback interrupted starts over with the first observer.
NotifyFromStart(ss, from, v) ==
  LET k == FirstCall(ss, from, v)
      to == IF k = 0 THEN Len(ss) ELSE k
  IN [i \in 1..Len(ss) |-> IF i <= to THEN SubNext(ss[i], v) ELSE ss[i]]

\* _state$ passes v to its observers ss[from..] in subscription order, up to the first
\* whose callback calls into the store.
NotifyFrom(ss, from, v) ==
  LET k == FirstCall(ss, from, v)
      to == IF k = 0 THEN Len(ss) ELSE k
  IN [i \in 1..Len(ss) |-> IF from <= i /\ i <= to THEN SubNext(ss[i], v) ELSE ss[i]]

\* The _state$.next call that a callback interrupts: the value, the observer whose
\* callback runs, the observers still to be passed the value, and the number of
\* _actions$.next calls in progress around it.
Interrupted(ss, from, v, depth) ==
  LET k == FirstCall(ss, from, v) IN
  IF k = 0 THEN <<>>
  ELSE <<[value |-> v, sub |-> k, idx |-> k + 1, pending |-> TRUE, replay |-> FALSE,
          depth |-> depth]>>

\* _state$.error(err): the BehaviorSubject stops, keeps err and passes it to its
\* observers; a subscription made without an error callback ends and its error is
\* thrown in a later turn.
SubError(sub, err) ==
  IF sub.error = "none" /\ ~sub.closed THEN [sub EXCEPT !.error = err] ELSE sub
Open(ss) == {i \in 1..Len(ss) : ss[i].error = "none" /\ ~ss[i].closed}
RECURSIVE Repeat(_, _)
Repeat(x, n) == IF n = 0 THEN <<>> ELSE <<x>> \o Repeat(x, n - 1)
StateError(err) ==
  /\ thrownError' = err
  /\ subs' = [i \in 1..Len(subs) |-> SubError(subs[i], err)]
  /\ unhandled' = unhandled \o Repeat(err, Cardinality(Open(subs)))

\* _state$.next(v): the BehaviorSubject keeps v and passes it to its observers.
StateNext(v, cause, n) ==
  /\ state' = v
  /\ subs' = NotifyFrom(subs, 1, v)
  /\ published' = Append(published, [value |-> v, cause |-> cause, action |-> n])

\* Mutant: each reducer reads its slice from nextState, so that a descriptor
\* registered twice is applied twice.
RECURSIVE ReducerLoopChained(_, _, _, _, _, _)
ReducerLoopChained(i, currentState, action, slices, hasChanged, fresh) ==
  IF i > Len(reducers)
    THEN [slices |-> slices, hasChanged |-> hasChanged, fresh |-> fresh, thrown |-> FALSE]
  ELSE LET featureKey == reducers[i].path
           stateSlice == slices[featureKey]
           nextStateSlice == ReducerFn(reducers[i], stateSlice, action, fresh)
       IN IF nextStateSlice = Thrown
            THEN [slices |-> slices, hasChanged |-> hasChanged, fresh |-> fresh,
                  thrown |-> TRUE]
          ELSE IF stateSlice # nextStateSlice
            THEN ReducerLoopChained(i + 1, currentState, action,
                                    [slices EXCEPT ![featureKey] = nextStateSlice], TRUE,
                                    IF nextStateSlice.ref = fresh THEN fresh + 1 ELSE fresh)
            ELSE ReducerLoopChained(i + 1, currentState, action, slices, hasChanged, fresh)

\* The body of the scan accumulator's forEach over _reducers[i..]: nextState's slices,
\* hasChanged, the next fresh identity, and whether a reducerFn threw.
RECURSIVE ReducerLoop(_, _, _, _, _, _)
ReducerLoop(i, currentState, action, slices, hasChanged, fresh) ==
  IF i > Len(reducers)
    THEN [slices |-> slices, hasChanged |-> hasChanged, fresh |-> fresh, thrown |-> FALSE]
  ELSE LET featureKey == reducers[i].path
           stateSlice == currentState.slices[featureKey]
           nextStateSlice == ReducerFn(reducers[i], stateSlice, action, fresh)
       IN IF nextStateSlice = Thrown
            THEN [slices |-> slices, hasChanged |-> hasChanged, fresh |-> fresh,
                  thrown |-> TRUE]
          ELSE IF stateSlice # nextStateSlice
            THEN ReducerLoop(i + 1, currentState, action,
                             [slices EXCEPT ![featureKey] = nextStateSlice], TRUE,
                             IF nextStateSlice.ref = fresh THEN fresh + 1 ELSE fresh)
            ELSE ReducerLoop(i + 1, currentState, action, slices, hasChanged, fresh)

\* Mutant: nextState = currentState, the changed slices written into the accumulator.
ScanAccumulatorInPlace(currentState, action) ==
  LET r == ReducerLoop(1, currentState, action, currentState.slices, FALSE, nextRef) IN
  IF r.thrown
    THEN [state |-> currentState, fresh |-> r.fresh, thrown |-> TRUE]
    ELSE [state |-> [ref |-> currentState.ref, slices |-> r.slices], fresh |-> r.fresh,
          thrown |-> FALSE]

\* Mutant: scan passes on the accumulator it was given, the action not folded.
ScanAccumulatorUnfolded(currentState, action) ==
  [state |-> currentState, fresh |-> nextRef, thrown |-> FALSE]

\* scan((currentState, action) => ...): the next accumulator and the next fresh
\* identity, or the exception of a reducerFn.
ScanAccumulator(currentState, action) ==
  LET r == ReducerLoop(1, currentState, action, currentState.slices, FALSE, nextRef) IN
  IF r.thrown
    THEN [state |-> currentState, fresh |-> r.fresh, thrown |-> TRUE]
  ELSE IF r.hasChanged
    THEN [state |-> [ref |-> r.fresh, slices |-> r.slices], fresh |-> r.fresh + 1,
          thrown |-> FALSE]
    ELSE [state |-> currentState, fresh |-> r.fresh, thrown |-> FALSE]

\* Mutant: the Subject passes the action to its observers after the first effect only.
NewCallSkipping(action, n) == [action |-> action, idx |-> 2, l |-> 0, n |-> n]

\* A call _actions$.next(action), the n-th, that has passed the action to scan and to
\* none of the effects (idx) and subscriptions of listen (l) yet.
NewCall(action, n) == [action |-> action, idx |-> 1, l |-> 0, n |-> n]

\* _actions$.next(action): the Subject passes the action to its observers in
\* subscription order.  The first is the scan pipeline of the constructor, which folds
\* and publishes at once; the effects follow, one per Deliver step of the new frame.
\* scan catches an exception of its accumulator and passes it on as an error: its
\* subscription to _actions$ ends, _state$ receives the error, and next returns.
\* `callers` are the next calls in progress around this one and `waiting` the
\* interrupted _state$.next calls; the new call passes the action to its observers
\* after scan from the first on (idx, and l for the subscriptions of listen).
ActionsNextWithin(action, callers, waiting) ==
  LET r == ScanAccumulator(scanAcc, action) IN
  /\ IF scanStopped
       THEN /\ notifying' = waiting
            /\ UNCHANGED <<scanAcc, nextRef, state, subs, published, errorVars>>
     ELSE IF r.thrown
       THEN /\ scanStopped' = TRUE
            /\ StateError("Error")
            /\ thrown' = Append(thrown, [in |-> "reducer", action |-> Len(actionLog) + 1])
            /\ nextRef' = r.fresh
            /\ notifying' = waiting
            /\ UNCHANGED <<scanAcc, state, published, raised>>
       ELSE /\ scanAcc' = r.state
            /\ nextRef' = r.fresh
            /\ StateNext(r.state, "scan", Len(actionLog) + 1)
            /\ notifying' = Interrupted(subs, 1, r.state, Len(callers) + 1) \o waiting
            /\ UNCHANGED errorVars
  /\ actionLog' = Append(actionLog, action)
  /\ stack' = <<NewCall(action, Len(actionLog) + 1)>> \o callers

ActionsNext(action, callers) == ActionsNextWithin(action, callers, notifying)

\* constructor(initialState = {}): _state$ is created with the clone, and the
\* subscription of state$ then passes startWith's value, the caller's object, to it.
StoreInit ==
  /\ initialState \in CallerStates
  /\ scanAcc = StructuredClone(initialState)
  /\ state = initialState
  /\ published = <<[value |-> initialState, cause |-> "startWith", action |-> 0]>>
  /\ reducers = <<>>
  /\ context = NoCtx
  /\ effects = <<>>
  /\ subs = <<>>
  /\ stack = <<>>
  /\ pending = <<>>
  /\ nextRef = FirstFreeRef
  /\ actionLog = <<>>
  /\ emissions = <<>>
  /\ dispatched = <<>>
  /\ regAt = [k \in Keys |-> -1]
  /\ effAt = <<>>
  /\ thrownError = "none"
  /\ scanStopped = FALSE
  /\ thrown = <<>>
  /\ raised = <<>>
  /\ unhandled = <<>>
  /\ notifying = <<>>
  /\ reentries = <<>>
  /\ listeners = <<>>
  /\ effReceived = <<>>
  /\ effError = {}
  /\ components = [c \in Components |-> NoComponent]
  /\ sent = <<>>
  /\ calls = <<>>
  /\ pairs = <<>>

\* No call into the store is in progress.
Idle == stack = <<>> /\ notifying = <<>>

\* The call in progress innermost is an interrupted _state$.next call.
Notifying == notifying # <<>> /\ Head(notifying).depth = Len(stack)

\* Mutant: the back-fill without its test for an undefined slice.
RECURSIVE BackFillOverwrite(_, _, _, _)
BackFillOverwrite(rs, i, slices, hasChanged) ==
  IF i > Len(rs) THEN [slices |-> slices, hasChanged |-> hasChanged]
  ELSE BackFillOverwrite(rs, i + 1, [slices EXCEPT ![rs[i].path] = rs[i].initialState], TRUE)

\* Mutant: the back-fill without `hasChanged = true`, so that nothing is published.
RECURSIVE BackFillSilent(_, _, _, _)
BackFillSilent(rs, i, slices, hasChanged) ==
  IF i > Len(rs) THEN [slices |-> slices, hasChanged |-> hasChanged]
  ELSE IF slices[rs[i].path] = Undef
         THEN BackFillSilent(rs, i + 1, [slices EXCEPT ![rs[i].path] = rs[i].initialState],
                             hasChanged)
         ELSE BackFillSilent(rs, i + 1, slices, hasChanged)

\* The back-fill loop of registerReducers over its arguments rs[i..].
RECURSIVE BackFill(_, _, _, _)
BackFill(rs, i, slices, hasChanged) ==
  IF i > Len(rs) THEN [slices |-> slices, hasChanged |-> hasChanged]
  ELSE IF slices[rs[i].path] = Undef
         THEN BackFill(rs, i + 1, [slices EXCEPT ![rs[i].path] = rs[i].initialState], TRUE)
         ELSE BackFill(rs, i + 1, slices, hasChanged)

\* registerReducers(...reducers)
RegisterReducers(rs) ==
  /\ Idle
  /\ reducers' = reducers \o rs
  /\ LET r == BackFill(rs, 1, state.slices, FALSE) IN
       IF thrownError # "none"
         THEN \* _state$.getValue() throws the error _state$ holds
              /\ raised' = Append(raised, [from |-> "registerReducers", error |-> thrownError])
              /\ UNCHANGED <<state, subs, published, nextRef, notifying>>
       ELSE IF r.hasChanged
         THEN /\ StateNext([ref |-> nextRef, slices |-> r.slices], "registerReducers",
                            Len(actionLog))
              /\ notifying' = Interrupted(subs, 1, [ref |-> nextRef, slices |-> r.slices], 0)
              /\ nextRef' = nextRef + 1
              /\ UNCHANGED raised
         ELSE UNCHANGED <<state, subs, published, nextRef, raised, notifying>>
  /\ regAt' = [k \in Keys |->
                 IF regAt[k] = -1 /\ k \in {rs[i].path : i \in 1..Len(rs)}
                   THEN Len(actionLog) ELSE regAt[k]]
  /\ UNCHANGED <<scanAcc, context, effects, stack, pending, initialState, actionLog,
                 emissions, dispatched, effAt, thrownError, scanStopped, thrown, unhandled>>
  /\ UNCHANGED <<reentries, observerVars, pluginVars, pureVars>>

\* setContext(context)
SetContext(c) ==
  /\ Idle
  /\ context' = c
  /\ UNCHANGED <<state, scanAcc, reducers, effects, subs, stack, pending, nextRef,
                 initialState, actionLog, published, emissions, dispatched, regAt, effAt,
                 errorVars>>
  /\ UNCHANGED <<notifying, reentries, observerVars, pluginVars, pureVars>>

\* ---------------------------------------------------------------- effects
\* createEffect(effectFn, config = {dispatch: true}): the function, tagged with
\* _rxEffect = {dispatch: config.dispatch !== false}.  config is "omitted", or the
\* value of its dispatch property ("undefined" for {}).
CreateEffect(effectFn, config) ==
  LET dispatch == IF config = "omitted" THEN "true" ELSE config IN
  [effectFn EXCEPT !.rxEffect = IF dispatch # "false" THEN "true" ELSE "false"]

\* Mutant: the configuration is not read.
ConfigDispatchIgnored(effectFn) == TRUE

\* const config = effectFn._rxEffect || { dispatch: true }; config.dispatch
ConfigDispatch(effectFn) ==
  IF effectFn.rxEffect = "undefined" THEN TRUE ELSE effectFn.rxEffect = "true"

\* The effect functions of the application, before createEffect: each maps the actions
\* of type `from` (ofType) to an action of type `to`, at once (map) or later
\* (concatMap over a promise); the action it builds carries outCtx as its context.
EffectFn(sync, outCtx) ==
  [sel |-> "none", from |-> "X", to |-> "Y", rxEffect |-> "undefined", sync |-> sync,
   outCtx |-> outCtx, op |-> "none"]

\* Whether the function has the property _rxEffect, which createEffect defines with
\* Object.defineProperty and a value only: not writable, not configurable.
Tagged(effectFn) == effectFn.rxEffect # "undefined"

\* createEffect(fn, config), called by the application: Object.defineProperty throws a
\* TypeError for a function that has the property already, with another object as its
\* value; else the call returns the function with the property.
CreateEffectCall(config) ==
  /\ fn' = IF Tagged(fn) THEN fn ELSE CreateEffect(fn, config)
  /\ fnCalls' = Append(fnCalls, [op |-> "createEffect", arg |-> config, before |-> fn,
                                 after |-> fn', threw |-> Tagged(fn)])

\* fn._rxEffect = {dispatch: v}, by the application: the property is not writable, the
\* assignment does nothing (or throws a TypeError, in strict mode).
AssignProperty(v) ==
  /\ Tagged(fn)
  /\ fn' = fn
  /\ fnCalls' = Append(fnCalls, [op |-> "assign", arg |-> v, before |-> fn, after |-> fn,
                                 threw |-> TRUE])

\* fn._rxEffect.dispatch = v, by the application: the object createEffect made is an
\* ordinary object.
SetFlag(v) ==
  /\ Tagged(fn)
  /\ fn' = [fn EXCEPT !.rxEffect = v]
  /\ fnCalls' = Append(fnCalls, [op |-> "set", arg |-> v, before |-> fn, after |-> fn',
                                 threw |-> FALSE])

EffectChoices ==
  { CreateEffect(EffectFn(TRUE, NoCtx), "omitted"),
    CreateEffect(EffectFn(TRUE, "own"), "true"),
    CreateEffect(EffectFn(FALSE, NoCtx), "undefined"),
    CreateEffect(EffectFn(TRUE, NoCtx), "false") }

\* Mutant: the map without the context.
InjectContextNever(action) == action

\* Mutant: the map without its test of the action's own context.
InjectContextAlways(action) ==
  IF context # NoCtx THEN [action EXCEPT !.context = context] ELSE action

\* The map of registerEffects: this._context && !action.context
\*   ? {...action, context: this._context} : action
InjectContext(action) ==
  IF context # NoCtx /\ action.context = NoCtx
    THEN [action EXCEPT !.context = context]
    ELSE action

\* Mutant: _actions$ replays the actions it was passed before to a new subscriber.
RegisterEffectsReplaying(effectFn) ==
  /\ Idle
  /\ effects' = Append(effects, effectFn)
  /\ effAt' = Append(effAt, Len(actionLog))
  /\ effReceived' = Append(effReceived, [n \in 1..Len(actionLog) |-> n])
  /\ UNCHANGED <<state, scanAcc, reducers, context, subs, stack, pending, nextRef,
                 initialState, actionLog, published, emissions, dispatched, regAt,
                 errorVars>>
  /\ UNCHANGED <<notifying, reentries, listeners, effError, pluginVars, pureVars>>

\* registerEffects(effectFn): the effect's stream is subscribed to _actions$.
RegisterEffects(effectFn) ==
  /\ Idle
  /\ effects' = Append(effects, effectFn)
  /\ effAt' = Append(effAt, Len(actionLog))
  /\ effReceived' = Append(effReceived, <<>>)
  /\ UNCHANGED <<state, scanAcc, reducers, context, subs, stack, pending, nextRef,
                 initialState, actionLog, published, emissions, dispatched, regAt,
                 errorVars>>
  /\ UNCHANGED <<notifying, reentries, listeners, effError, pluginVars, pureVars>>

\* dispatch(action), called while no call into the store is in progress
StoreDispatch(action) ==
  /\ Idle
  /\ dispatched' = Append(dispatched, action)
  /\ ActionsNext(action, <<>>)
  /\ UNCHANGED <<reducers, context, effects, pending, initialState, emissions, regAt, effAt>>
  /\ UNCHANGED <<reentries, observerVars, pureVars>>

\* dispatch(action), called by the application
Dispatch(action) == StoreDispatch(action) /\ UNCHANGED pluginVars

\* Mutant: select on the scan pipeline's stream instead of _state$: the replay
\* misses what registerReducers published.
GetValueOfScan == scanAcc

\* The value the BehaviorSubject _state$ passes to a new observer.
GetValue == state

\* A value leaves an effect's output stream: with dispatch it passes the context map
\* and enters dispatch (a nested _actions$.next when `callers` is not empty); without,
\* the subscription has no callback and the value is dropped.
EmitWithin(e, action, callers, waiting) ==
  IF ConfigDispatch(effects[e])
    THEN /\ ActionsNextWithin(InjectContext(action), callers, waiting)
         /\ emissions' = Append(emissions, [effect |-> e, action |-> action,
                                            context |-> context, at |-> Len(actionLog) + 1])
    ELSE /\ stack' = callers
         /\ notifying' = waiting
         /\ emissions' = Append(emissions, [effect |-> e, action |-> action,
                                            context |-> context, at |-> 0])
         /\ UNCHANGED <<state, scanAcc, subs, nextRef, actionLog, published, errorVars>>

Emit(e, action, callers) == EmitWithin(e, action, callers, notifying)

\* What the effect's last operator makes of an action that passed ofType: a new action
\* of the effect's type, or, for an effect without a map, the action itself.
EffectOutput(effectFn, action) ==
  IF effectFn.to = "same" THEN action
  ELSE [type |-> effectFn.to, context |-> effectFn.outCtx]

\* typeof action.context.subscribe === 'function': the plugin gives a component
\* `subscribe` in onCreate or onInit (the one of a Page that found no store subscribes
\* to nothing).
HasSubscribe(ctx) == ctx \in Components /\ components[ctx].phase # "new"

\* typeof action.context.call === 'function': the host's messaging gives every
\* component `call`; other objects used as a context have none.
HasCall(ctx) == ctx \in Components

\* Mutant: the action is sent as it is, with its context.
ActionToSendWhole(action) == action

\* const { context, ...actionToSend } = action
ActionToSend(action) == [action EXCEPT !.context = NoCtx]

\* propagateAction(): tap(action => ...), the calls of context.call after the effect e
\* was passed the action of the call `top`
PropagateAction(e, top) ==
  IF top.action.context # NoCtx /\ HasCall(top.action.context)
    THEN Append(calls, [effect |-> e, context |-> top.action.context,
                        action |-> ActionToSend(top.action), n |-> top.n])
    ELSE calls

\* The subscription on select(sel) made for `owner` with the callback cb, _state$
\* passing its value, or the error it holds, to it at once.
NewSub(owner, sel, cb) ==
  LET value == SelectorFn(sel, GetValue)
      err == IF thrownError # "none" THEN thrownError
             ELSE IF value = SelThrown THEN "TypeError" ELSE "none"
  IN [sel |-> sel, last |-> value,
      received |-> IF err = "none" THEN <<value>> ELSE <<>>,
      at |-> Len(published), atAction |-> Len(actionLog),
      error |-> err, closed |-> FALSE, owner |-> owner, cb |-> cb]

\* The replay a callback interrupts: _state$ has passed its value to the subscription
\* being made, whose callback calls into the store before subscribe returns.
Replayed(sub, k, depth) ==
  IF sub.error = "none" /\ (\/ sub.cb.kind = "operator"
                            \/ sub.cb.kind = "dispatch" /\ sub.last = sub.cb.on)
    THEN <<[value |-> state, sub |-> k, idx |-> k + 1, pending |-> TRUE, replay |-> TRUE,
            depth |-> depth]>>
    ELSE <<>>

\* this._subscriptions.push(subscription)
Track(c, kind, i) ==
  [components EXCEPT ![c].subscriptions = Append(@, [kind |-> kind, idx |-> i])]

\* withLatestFromStore(selector), the project function of its mergeMap for the action of
\* the call `top`: without a subscribe method on the action's context it throws, and
\* the effect's stream ends with the error; else it subscribes through the context.
WithLatestFromStore(e, top, callers) ==
  LET ctx == top.action.context
      sub == NewSub(ctx, effects[e].sel,
                    [NoCallback EXCEPT !.kind = "operator", !.effect = e, !.source = top.n])
  IN IF ctx = NoCtx \/ ~HasSubscribe(ctx)
       THEN /\ effError' = effError \cup {e}
            /\ unhandled' = Append(unhandled, "Error")
            /\ UNCHANGED <<subs, components, notifying>>
     ELSE IF components[ctx].phase = "nostore"
       THEN UNCHANGED <<subs, components, notifying, effError, unhandled>>
       ELSE /\ subs' = Append(subs, sub)
            /\ components' = Track(ctx, "select", Len(subs) + 1)
            /\ notifying' = Replayed(sub, Len(subs) + 1, Len(stack)) \o notifying
            /\ unhandled' = IF sub.error = "none" THEN unhandled
                            ELSE Append(unhandled, sub.error)
            /\ UNCHANGED effError

\* Mutant: the subscriptions of listen are passed an action after all the effects.
ListenerDueLast(frame) ==
  frame.l < Len(listeners) /\ frame.idx > Len(effects)

\* Whether the next observer of the call `frame` is a subscription of listen: one made
\* before the effect frame.idx was registered.
ListenerDue(frame) ==
  frame.l < Len(listeners) /\ listeners[frame.l + 1].before < frame.idx

\* The Subject passes the action of the innermost next call to its next observer, the
\* effect effects[idx].
Deliver ==
  /\ stack # <<>>
  /\ ~Notifying
  /\ ~ListenerDue(Head(stack))
  /\ Head(stack).idx <= Len(effects)
  /\ LET top == Head(stack)
         e == top.idx
         callers == <<[top EXCEPT !.idx = @ + 1]>> \o Tail(stack)
         out == EffectOutput(effects[e], top.action)
     IN IF e \in effError
          THEN /\ stack' = callers
               /\ UNCHANGED <<state, scanAcc, subs, pending, nextRef, actionLog, published,
                              emissions, errorVars, notifying, effReceived, effError,
                              components, calls>>
        ELSE
          /\ effReceived' = [effReceived EXCEPT ![e] = Append(@, top.n)]
          /\ IF top.action.type # effects[e].from
               THEN /\ stack' = callers
                    /\ UNCHANGED <<state, scanAcc, subs, pending, nextRef, actionLog,
                                   published, emissions, errorVars, notifying, effError,
                                   components, calls>>
             ELSE IF effects[e].op = "withLatestFromStore"
               THEN /\ WithLatestFromStore(e, top, callers)
                    /\ stack' = callers
                    /\ UNCHANGED <<state, scanAcc, pending, nextRef, actionLog, published,
                                   emissions, thrownError, scanStopped, thrown, raised, calls>>
             ELSE
               /\ calls' = IF effects[e].op = "propagateAction"
                             THEN PropagateAction(e, top) ELSE calls
               /\ UNCHANGED <<effError, components>>
               /\ IF effects[e].sync
                    THEN /\ Emit(e, out, callers)
                         /\ UNCHANGED pending
                    ELSE /\ pending' = Append(pending, [effect |-> e, action |-> out])
                         /\ stack' = callers
                         /\ UNCHANGED <<state, scanAcc, subs, nextRef, actionLog, published,
                                        emissions, errorVars, notifying>>
  /\ reentries' = LET top == Head(stack)
                       e == top.idx
                   IN IF /\ e \notin effError
                         /\ top.action.type = effects[e].from
                         /\ effects[e].op # "withLatestFromStore"
                         /\ effects[e].sync
                         /\ ConfigDispatch(effects[e])
                        THEN Append(reentries, [by |-> "effect", who |-> e, source |-> top.n,
                                                at |-> Len(actionLog) + 1])
                        ELSE reentries
  /\ UNCHANGED <<reducers, context, effects, initialState, dispatched, regAt, effAt>>
  /\ UNCHANGED <<listeners, sent, pairs, pureVars>>

\* The Subject passes the action of the innermost next call to its next observer, a
\* subscription made by listen: filter passes an action of a listed type to the callback.
DeliverListener ==
  /\ stack # <<>>
  /\ ~Notifying
  /\ ListenerDue(Head(stack))
  /\ LET top == Head(stack)
         j == top.l + 1
     IN /\ listeners' = [listeners EXCEPT ![j].received =
                           IF ~listeners[j].closed /\ top.action.type \in listeners[j].types
                             THEN Append(@, top.n) ELSE @]
        /\ stack' = <<[top EXCEPT !.l = j]>> \o Tail(stack)
  /\ UNCHANGED <<state, scanAcc, reducers, context, effects, subs, pending, nextRef,
                 initialState, actionLog, published, emissions, dispatched, regAt, effAt,
                 errorVars>>
  /\ UNCHANGED <<notifying, reentries, effReceived, effError, pluginVars, pureVars>>

\* The innermost _actions$.next call has passed its action to every observer and returns.
Return ==
  /\ stack # <<>>
  /\ ~Notifying
  /\ ~ListenerDue(Head(stack))
  /\ Head(stack).idx > Len(effects)
  /\ stack' = Tail(stack)
  /\ UNCHANGED <<state, scanAcc, reducers, context, effects, subs, pending, nextRef,
                 initialState, actionLog, published, emissions, dispatched, regAt, effAt,
                 errorVars>>
  /\ UNCHANGED <<notifying, reentries, observerVars, pluginVars, pureVars>>

\* The callback of a select subscription, called by _state$ inside a next call or a
\* replay, calls into the store: it dispatches, or it passes the pair of its action and
\* the selected value down the effect's stream, whose last operator emits.
Callback ==
  /\ Notifying
  /\ Head(notifying).pending
  /\ LET top == Head(notifying)
         cb == subs[top.sub].cb
         waiting == <<[top EXCEPT !.pending = FALSE]>> \o Tail(notifying)
         e == cb.effect
     IN IF cb.kind = "dispatch"
          THEN /\ ActionsNextWithin([type |-> cb.type, context |-> NoCtx], stack, waiting)
               /\ reentries' = Append(reentries, [by |-> "callback", who |-> top.sub,
                                                   source |-> 0, at |-> Len(actionLog) + 1])
               /\ UNCHANGED <<pending, emissions, pairs>>
          ELSE /\ pairs' = Append(pairs, [effect |-> e, source |-> cb.source,
                                          value |-> subs[top.sub].last,
                                          current |-> SelectorFn(subs[top.sub].sel, state),
                                          depth |-> Len(notifying)])
               /\ reentries' = IF effects[e].sync /\ ConfigDispatch(effects[e])
                                  THEN Append(reentries, [by |-> "effect", who |-> e,
                                                          source |-> cb.source,
                                                          at |-> Len(actionLog) + 1])
                                  ELSE reentries
               /\ IF effects[e].sync
                    THEN /\ EmitWithin(e, EffectOutput(effects[e], actionLog[cb.source]),
                                       stack, waiting)
                         /\ UNCHANGED pending
                    ELSE /\ pending' = Append(pending,
                                [effect |-> e,
                                 action |-> EffectOutput(effects[e], actionLog[cb.source])])
                         /\ notifying' = waiting
                         /\ UNCHANGED <<state, scanAcc, subs, nextRef, actionLog, published,
                                        emissions, errorVars, stack>>
  /\ UNCHANGED <<reducers, context, effects, initialState, dispatched, regAt, effAt>>
  /\ UNCHANGED <<observerVars, components, sent, calls, pureVars>>

\* The callback has returned.  The subscriber of withLatestFromStore has completed, and
\* when its callback was called by the replay, subscribe returns and the teardown
\* unsubscribes from the store.  _state$ passes the value of the interrupted next call
\* to its remaining observers.
CallbackReturn ==
  /\ Notifying
  /\ ~Head(notifying).pending
  /\ LET top == Head(notifying)
         k == top.sub
         ss == IF subs[k].cb.kind = "operator"
                 THEN [subs EXCEPT ![k].cb.done = TRUE, ![k].closed = @ \/ top.replay]
                 ELSE subs
         k2 == FirstCall(ss, top.idx, top.value)
     IN /\ subs' = NotifyFrom(ss, top.idx, top.value)
        /\ notifying' = IF k2 = 0 THEN Tail(notifying)
                        ELSE <<[top EXCEPT !.sub = k2, !.idx = k2 + 1, !.pending = TRUE,
                                           !.replay = FALSE]>> \o Tail(notifying)
  /\ UNCHANGED <<state, scanAcc, reducers, context, effects, stack, pending, nextRef,
                 initialState, actionLog, published, emissions, dispatched, regAt, effAt,
                 errorVars>>
  /\ UNCHANGED <<reentries, observerVars, pluginVars, pureVars>>

\* The promise of an asynchronous effect resolves in a later turn, and the effect's
\* output stream emits.
Resolve ==
  /\ Idle
  /\ pending # <<>>
  /\ pending' = Tail(pending)
  /\ Emit(Head(pending).effect, Head(pending).action, <<>>)
  /\ UNCHANGED <<reducers, context, effects, initialState, dispatched, regAt, effAt>>
  /\ UNCHANGED <<reentries, observerVars, pluginVars, pureVars>>

\* select(selectorFn).subscribe(callback): the BehaviorSubject replays its value, or
\* the error it holds; map passes an exception of selectorFn on as an error.
Subscribe(owner, sel, cb) ==
  LET sub == NewSub(owner, sel, cb) IN
  /\ Idle
  /\ subs' = Append(subs, sub)
  /\ notifying' = Replayed(sub, Len(subs) + 1, 0)
  /\ thrown' = IF thrownError = "none" /\ sub.last = SelThrown
                 THEN Append(thrown, [in |-> "selector", action |-> Len(actionLog)])
                 ELSE thrown
  /\ unhandled' = IF sub.error = "none" THEN unhandled ELSE Append(unhandled, sub.error)
  /\ UNCHANGED <<state, scanAcc, reducers, context, effects, stack, pending, nextRef,
                 initialState, actionLog, published, emissions, dispatched, regAt, effAt,
                 thrownError, scanStopped, raised>>
  /\ UNCHANGED <<reentries, observerVars, pureVars>>

\* select(selectorFn).subscribe(callback), called by the application
Select(sel) == Subscribe("none", sel, NoCallback) /\ UNCHANGED pluginVars

\* ---------------------------------------------------------------- zeppos.js
\* storePlugin(instance, store), used by the App with the store and by a Page without.
\* A component is "new" until its hook has run; then the App is "created", and a Page
\* is "init" when it found the store on the App and "nostore" when it did not.
Attached(c) == components[c].phase \in {"created", "init"}

\* The messages the host passes to a component's onAction: typeOf is the typeof of the
\* message's `type` ("null" for a message that is null), and an action arriving from
\* another process may carry a `context` property of its own.
Messages ==
  { [type |-> "X", context |-> NoCtx, typeOf |-> "string"],
    [type |-> "X", context |-> "page", typeOf |-> "string"],
    [type |-> "none", context |-> NoCtx, typeOf |-> "number"],
    [type |-> "none", context |-> NoCtx, typeOf |-> "undefined"],
    [type |-> "none", context |-> NoCtx, typeOf |-> "null"] }

\* The actions a component passes to this.dispatch: without a context, or with one.
GivenActions ==
  {[type |-> "X", context |-> x, typeOf |-> "string"] : x \in {NoCtx, "page"}}

\* Mutant: { context: this, ...action }, where a context of the action wins.
ActionWithContextKept(action, c) ==
  [type |-> action.type, context |-> IF action.context # NoCtx THEN action.context ELSE c]

\* const actionWithContext = { ...action, context: this }
ActionWithContext(action, c) == [type |-> action.type, context |-> c]

\* The caller's object after this.dispatch(action): the spread copies its properties
\* into a new object, and nothing is assigned to it.
CallerObjectAfter(action, c) == action

\* onCreate(), the hook of the App
OnCreate(c) ==
  /\ Idle
  /\ components[c].phase = "new"
  /\ context' = c
  /\ components' = [components EXCEPT ![c].phase = "created", ![c].onCall = TRUE]
  /\ UNCHANGED <<state, scanAcc, reducers, effects, subs, stack, pending, nextRef,
                 initialState, actionLog, published, emissions, dispatched, regAt, effAt,
                 errorVars>>
  /\ UNCHANGED <<notifying, reentries, observerVars, sent, calls, pairs, pureVars>>

\* onInit(), the hook of a Page: getApp()._store, or the fallback methods without it
OnInitPage(c, app) ==
  /\ Idle
  /\ components[c].phase = "new"
  /\ components' = [components EXCEPT
                      ![c].phase = IF components[app].phase = "created" THEN "init"
                                   ELSE "nostore",
                      ![c].onCall = TRUE]
  /\ UNCHANGED <<state, scanAcc, reducers, context, effects, subs, stack, pending, nextRef,
                 initialState, actionLog, published, emissions, dispatched, regAt, effAt,
                 errorVars>>
  /\ UNCHANGED <<notifying, reentries, observerVars, sent, calls, pairs, pureVars>>

\* this.dispatch(action) of a component that has the store
PluginDispatch(c, action, via) ==
  /\ Attached(c)
  /\ StoreDispatch(ActionWithContext(action, c))
  /\ sent' = <<[component |-> c, via |-> via, given |-> action,
                after |-> CallerObjectAfter(action, c), at |-> Len(actionLog) + 1]>>
  /\ UNCHANGED <<components, calls, pairs>>

\* this.onAction(message), called by the host for a message of messaging.onCall: the
\* App dispatches a message whose type is a string; the handler of a Page is empty.
OnAction(c, message) ==
  /\ Idle
  /\ components[c].onCall
  /\ IF components[c].phase = "created" /\ message.typeOf = "string"
       THEN PluginDispatch(c, message, "onAction")
       ELSE /\ sent' = <<[component |-> c, via |-> "onAction", given |-> message,
                        after |-> message, at |-> 0]>>
            /\ UNCHANGED <<state, scanAcc, reducers, context, effects, subs, stack, pending,
                           nextRef, initialState, actionLog, published, emissions,
                           dispatched, regAt, effAt, errorVars>>
            /\ UNCHANGED <<notifying, reentries, observerVars, components, calls, pairs,
                           pureVars>>

\* this.subscribe(selector, callback) of a component that has the store
PluginSubscribe(c, sel, cb) ==
  /\ Attached(c)
  /\ Subscribe(c, sel, cb)
  /\ components' = Track(c, "select", Len(subs) + 1)
  /\ UNCHANGED <<sent, calls, pairs>>

\* this.listen(actionTypes, callback) of a Page that has the store
Listen(c, types) ==
  /\ Idle
  /\ components[c].phase = "init"
  /\ listeners' = Append(listeners, [owner |-> c, types |-> types, received |-> <<>>,
                                     closed |-> FALSE, before |-> Len(effects),
                                     at |-> Len(actionLog)])
  /\ components' = Track(c, "listen", Len(listeners) + 1)
  /\ UNCHANGED <<state, scanAcc, reducers, context, effects, subs, stack, pending, nextRef,
                 initialState, actionLog, published, emissions, dispatched, regAt, effAt,
                 errorVars>>
  /\ UNCHANGED <<notifying, reentries, effReceived, effError, sent, calls, pairs, pureVars>>

\* Mutant: onDestroy unsubscribes what this.subscribe made and leaves what this.listen made.
UnsubscribedSelectOnly(c, kind, i) ==
  kind = "select" /\ \E h \in Range(components[c].subscriptions) : h.kind = kind /\ h.idx = i

\* this._subscriptions.forEach((sub) => sub.unsubscribe()): whether the subscription i
\* of `kind` is among those the component tracks.
Unsubscribed(c, kind, i) ==
  \E h \in Range(components[c].subscriptions) : h.kind = kind /\ h.idx = i

\* onDestroy(), the hook of every component
OnDestroy(c) ==
  /\ Idle
  /\ components[c].phase # "new"
  /\ components' = [components EXCEPT ![c].onCall = FALSE, ![c].subscriptions = <<>>,
                                      ![c].destroyed = @ + 1]
  /\ subs' = [i \in 1..Len(subs) |->
                IF Unsubscribed(c, "select", i) THEN [subs[i] EXCEPT !.closed = TRUE]
                ELSE subs[i]]
  /\ listeners' = [i \in 1..Len(listeners) |->
                     IF Unsubscribed(c, "listen", i) THEN [listeners[i] EXCEPT !.closed = TRUE]
                     ELSE listeners[i]]
  /\ UNCHANGED <<state, scanAcc, reducers, context, effects, stack, pending, nextRef,
                 initialState, actionLog, published, emissions, dispatched, regAt, effAt,
                 errorVars>>
  /\ UNCHANGED <<notifying, reentries, effReceived, effError, sent, calls, pairs, pureVars>>

\* -------------------------------------------------------------- selectors.js
MaxSelCalls == 3      \* calls of the composed selector
MaxRedCalls == 2      \* calls of the reducerFn in a row

\* createFeatureSelector(featureKey): state => state[featureKey]
CreateFeatureSelector(featureKey, s) == s[featureKey]

\* The states the composed selector is called with: a is undefined or one of two
\* objects of equal content, b is undefined or an object.
SelectorStates ==
  [Keys -> {Undef, [ref |-> 21, val |-> 1], [ref |-> 22, val |-> 1], [ref |-> 23, val |-> 2]}]

\* projectionFn(...args) of the application: like counter => counter?.value, undefined
\* for an undefined first input, and else a new object computed from the inputs.
RECURSIVE SumVals(_)
SumVals(args) == IF args = <<>> THEN 0 ELSE args[1].val + SumVals(Tail(args))
ProjectionFn(args, fresh) ==
  IF args # <<>> /\ args[1] = Undef THEN Undef ELSE [ref |-> fresh, val |-> SumVals(args)]

\* areArgsEqual(a, b); b is lastArgs, undefined before the first run.
AreArgsEqual(a, b) ==
  IF ~b.defined \/ Len(a) # Len(b.items) THEN FALSE
  ELSE \A i \in 1..Len(a) : a[i] = b.items[i]

\* Mutant: the cached result tells whether the selector has run.
MemoHitByResult(sel, newArgs) == sel.lastResult # Undef /\ AreArgsEqual(newArgs, sel.lastArgs)

\* Mutant: the inputs of every earlier call are remembered.
MemoHitAnyEarlier(sel, newArgs) ==
  sel.hasRun /\ \E i \in 1..Len(selCalls) : selCalls[i].args = newArgs

\* Mutant: the inputs are compared with the remembered ones in their first place only.
MemoHitFirstInput(sel, newArgs) ==
  /\ sel.hasRun
  /\ sel.lastArgs.defined /\ sel.lastArgs.items # <<>> /\ newArgs # <<>>
  /\ newArgs[1] = sel.lastArgs.items[1]

\* hasRun && areArgsEqual(newArgs, lastArgs)
MemoHit(sel, newArgs) == sel.hasRun /\ AreArgsEqual(newArgs, sel.lastArgs)

\* createSelector(...inputSelectors, projectionFn): the selector and its memo state.
\* projectionFn is the typeof of the last argument, taken by args.pop() as it is.
CreateSelector(inputSelectors, projectionFn) ==
  [fresh |-> 31,
   lastResult |-> Undef, lastArgs |-> [defined |-> FALSE, items |-> <<>>],
   hasRun |-> FALSE,
   inputSelectors |-> inputSelectors, projectionFn |-> projectionFn]

\* createSelector(selectA, projectionFn), made to be an input of another selector; the
\* objects its projection function makes are not those of the other's.
InnerSelector == [CreateSelector(<<"a">>, "function") EXCEPT !.fresh = 51]

\* No selector made yet.
NoSelector == CreateSelector(<<>>, "undefined")

\* const selector = createSelector(...inputSelectors, projectionFn), called by the
\* application: the call returns the composed function.
CreateSelectorCall(inputSelectors, projectionFn) ==
  /\ created = "none"
  /\ selector' = CreateSelector(inputSelectors, projectionFn)
  /\ created' = "function"
  /\ UNCHANGED <<selCalls, inner>>

\* The function createSelector returns, called with state s.  lastArgs is assigned
\* before projectionFn is called: when that is not a function the call throws a
\* TypeError with lastArgs kept and hasRun still false.
CallSelector(s) ==
  LET newArgs == [i \in 1..Len(selector.inputSelectors) |->
                    CreateFeatureSelector(selector.inputSelectors[i], s)]
  IN /\ created = "function"
     /\ UNCHANGED <<created, inner>>
     /\ IF MemoHit(selector, newArgs)
          THEN /\ selCalls' = Append(selCalls, [args |-> newArgs,
                                                result |-> selector.lastResult,
                                                projected |-> FALSE])
               /\ UNCHANGED selector
        ELSE IF selector.projectionFn # "function"
          THEN /\ selector' = [selector EXCEPT !.lastArgs = [defined |-> TRUE, items |-> newArgs]]
               /\ selCalls' = Append(selCalls, [args |-> newArgs, result |-> Thrown,
                                                projected |-> FALSE])
          ELSE LET result == ProjectionFn(newArgs, selector.fresh) IN
               /\ selector' = [selector EXCEPT !.lastArgs = [defined |-> TRUE, items |-> newArgs],
                                               !.lastResult = result,
                                               !.hasRun = TRUE,
                                               !.fresh = @ + 1]
               /\ selCalls' = Append(selCalls, [args |-> newArgs, result |-> result,
                                                projected |-> TRUE])

\* The function createSelector returns, called with the results newArgs of its input
\* selectors: its memo state after the call, what it returns, and whether it invoked
\* projectionFn.
SelectorCall(sel, newArgs) ==
  IF MemoHit(sel, newArgs)
    THEN [sel |-> sel, result |-> sel.lastResult, projected |-> FALSE]
  ELSE LET result == ProjectionFn(newArgs, sel.fresh) IN
       [sel |-> [sel EXCEPT !.lastArgs = [defined |-> TRUE, items |-> newArgs],
                            !.lastResult = result,
                            !.hasRun = TRUE,
                            !.fresh = @ + 1],
        result |-> result, projected |-> TRUE]

\* outer(s), where outer = createSelector(inner, selectB, projectionFn) and
\* inner = createSelector(selectA, projectionFn): map calls inner(s) and selectB(s),
\* and the outer selector goes on with their results.
CallComposed(s) ==
  LET r1 == SelectorCall(inner, <<CreateFeatureSelector("a", s.slices)>>)
      r2 == SelectorCall(selector, <<r1.result, CreateFeatureSelector("b", s.slices)>>)
  IN /\ inner' = r1.sel
     /\ selector' = r2.sel
     /\ selCalls' = Append(selCalls, [args |-> <<r1.result, s.slices["b"]>>,
                                      result |-> r2.result, projected |-> r2.projected,
                                      state |-> s, innerProjected |-> r1.projected])
     /\ UNCHANGED created

\* ------------------------------------------------- reducers.js, called alone
\* The bindings an application passes to createReducer: two for INC, one for X and Y,
\* and two catch-alls.
Bindings ==
  { On(<<"INC">>, 1), On(<<"X", "Y">>, 2), On(<<"INC">>, 4),
    On(<<"anyAction">>, 8), On(<<"anyAction">>, 16) }
MaxOns == 3
BindingLists == UNION {[1..n -> Bindings] : n \in 0..MaxOns}

NoCall == [type |-> "none", n |-> 0, result |-> Undef, slice |-> Undef]

\* createReducer("a", InitialA, ...ons).reducerFn(slice, action)
CallReducer(slice, action) ==
  redCall' = [type |-> action.type, n |-> redCall.n + 1,
              result |-> ReducerFn(CreateReducer("a", InitialA, ons), slice, action,
                                   41 + redCall.n),
              slice |-> slice]

\* const action = creator(payload), called by the application.
CreatorCall(creator, payload) ==
  /\ made' = Append(made, [creator |-> creator, payload |-> payload,
                           action |-> ActionCreator(creator, payload)])
  /\ UNCHANGED <<fn, fnCalls>>

\* const binding = on(...actionCreators, reducerFn), called by the application: the
\* call returns the binding, which the application keeps for createReducer, or throws.
OnCall(actionCreators, add) ==
  LET binding == On(actionCreators, add) IN
  /\ onCalls' = Append(onCalls, [actionCreators |-> actionCreators, result |-> binding])
  /\ ons' = IF binding = ConfigError THEN ons ELSE Append(ons, binding)
  /\ UNCHANGED redCall

\* ------------------------------------------------------------ specifications
PureInit ==
  /\ selector = CreateSelector(<<"a">>, "function")
  /\ selCalls = <<>>
  /\ inner = InnerSelector
  /\ created = "function"
  /\ ons = <<>>
  /\ redCall = NoCall
  /\ onCalls = <<>>
  /\ made = <<>>
  /\ fn = EffectFn(TRUE, NoCtx)
  /\ fnCalls = <<>>

Init == StoreInit /\ PureInit

Next ==
  \/ \E rs \in RegisterChoices :
        Len(reducers) + Len(rs) <= MaxReducers /\ RegisterReducers(rs)
  \/ \E c \in Contexts : SetContext(c)
  \/ \E effectFn \in EffectChoices : Len(effects) < MaxEffects /\ RegisterEffects(effectFn)
  \/ \E t \in DispatchTypes :
        Len(dispatched) < MaxDispatch /\ Dispatch([type |-> t, context |-> NoCtx])
  \/ Deliver
  \/ Return
  \/ Resolve
  \/ \E sel \in Selectors : Len(subs) < MaxSubs /\ Select(sel)

Spec == Init /\ [][Next]_vars

\* A store on {} that is left alone.
StoreIdle ==
  /\ StoreInit
  /\ initialState.slices = EmptySlices

\* A composed selector over one or two feature selectors, called with any states.
SelectorInit ==
  /\ StoreIdle
  /\ selector \in {CreateSelector(<<"a">>, "function"), CreateSelector(<<"a", "b">>, "function")}
  /\ selCalls = <<>>
  /\ inner = InnerSelector
  /\ created = "function"
  /\ ons = <<>>
  /\ redCall = NoCall
  /\ onCalls = <<>>
  /\ made = <<>>
  /\ fn = EffectFn(TRUE, NoCtx)
  /\ fnCalls = <<>>

SelectorNext ==
  \E s \in SelectorStates :
    /\ Len(selCalls) < MaxSelCalls
    /\ CallSelector(s)
    /\ UNCHANGED <<storeVars, reducerVars, creatorVars>>

SpecSelector == SelectorInit /\ [][SelectorNext]_vars

\* The composed selector called four times in a row with states taken among three,
\* two of them with objects of equal content for a.
MaxMemoCalls == 4     \* calls of the composed selector
MemoStates ==
  {[k \in Keys |-> IF k = "a" THEN x ELSE [ref |-> 24, val |-> 3]] :
     x \in {[ref |-> 21, val |-> 1], [ref |-> 22, val |-> 1], [ref |-> 23, val |-> 2]}}

MemoNext ==
  \E s \in MemoStates :
    /\ Len(selCalls) < MaxMemoCalls
    /\ CallSelector(s)
    /\ UNCHANGED <<storeVars, reducerVars, creatorVars>>

SpecMemo == SelectorInit /\ [][MemoNext]_vars

\* createSelector called with input selectors and a last argument that is a function
\* or a number, and the selector it returns called with any states.
LastArguments == {"function", "number"}

CreateSelectorInit ==
  /\ StoreIdle
  /\ selector = NoSelector
  /\ selCalls = <<>>
  /\ inner = InnerSelector
  /\ created = "none"
  /\ ons = <<>>
  /\ redCall = NoCall
  /\ onCalls = <<>>
  /\ made = <<>>
  /\ fn = EffectFn(TRUE, NoCtx)
  /\ fnCalls = <<>>

CreateSelectorNext ==
  \/ \E inputSelectors \in {<<"a">>, <<"a", "b">>}, projectionFn \in LastArguments :
        /\ CreateSelectorCall(inputSelectors, projectionFn)
        /\ UNCHANGED <<storeVars, reducerVars, creatorVars>>
  \/ SelectorNext

SpecCreateSelector == CreateSelectorInit /\ [][CreateSelectorNext]_vars

\* A reducer made from any list of bindings, called with any slice and action.
ReducerInit ==
  /\ StoreIdle
  /\ selector = CreateSelector(<<"a">>, "function")
  /\ selCalls = <<>>
  /\ inner = InnerSelector
  /\ created = "function"
  /\ ons \in BindingLists
  /\ redCall = NoCall
  /\ onCalls = <<>>
  /\ made = <<>>
  /\ fn = EffectFn(TRUE, NoCtx)
  /\ fnCalls = <<>>

ReducerNext ==
  \E slice \in {Undef, [ref |-> 4, val |-> 5], redCall.result}, t \in Types :
    /\ redCall.n < MaxRedCalls
    /\ CallReducer(slice, [type |-> t, context |-> NoCtx])
    /\ UNCHANGED <<storeVars, selectorVars, creatorVars, ons, onCalls>>

SpecReducer == ReducerInit /\ [][ReducerNext]_vars

\* on called with any list of at most two action references, the marker included, and
\* the reducer made from the bindings it returned called with any action.
MaxOnCalls == 3
ActionRefs == {"INC", "X", "anyAction"}
ActionRefLists == UNION {[1..n -> ActionRefs] : n \in 0..2}

OnInit ==
  /\ StoreIdle
  /\ selector = CreateSelector(<<"a">>, "function")
  /\ selCalls = <<>>
  /\ inner = InnerSelector
  /\ created = "function"
  /\ ons = <<>>
  /\ redCall = NoCall
  /\ onCalls = <<>>
  /\ made = <<>>
  /\ fn = EffectFn(TRUE, NoCtx)
  /\ fnCalls = <<>>

OnNext ==
  \/ \E actionCreators \in ActionRefLists, add \in {1} :
        /\ Len(onCalls) < MaxOnCalls
        /\ redCall = NoCall
        /\ OnCall(actionCreators, add)
        /\ UNCHANGED <<storeVars, selectorVars, creatorVars>>
  \/ ReducerNext

SpecOn == OnInit /\ [][OnNext]_vars

\* ------------------------------------------ a transition or a selector that throws
\* The counter's descriptor and one whose transition throws on X; the selectors
\* s => s, s => s.a?.value and s => s.a.value; an effect answering X by Y at once.
ThrowRegisterChoices == {<<ReducerA>>, <<ReducerT>>, <<ReducerA, ReducerT>>}
ThrowSelectors == {"whole", "aValue", "aDeep"}

ThrowNext ==
  \/ \E rs \in ThrowRegisterChoices :
        Len(reducers) + Len(rs) <= MaxReducers /\ RegisterReducers(rs)
  \/ \E effectFn \in {CreateEffect(EffectFn(TRUE, NoCtx), "omitted")} :
        Len(effects) < MaxEffects /\ RegisterEffects(effectFn)
  \/ \E t \in {"INC", "X"} :
        Len(dispatched) < MaxDispatch /\ Dispatch([type |-> t, context |-> NoCtx])
  \/ Deliver
  \/ Return
  \/ \E sel \in ThrowSelectors : Len(subs) < MaxSubs /\ Select(sel)

SpecThrow == Init /\ [][ThrowNext]_vars

\* ---------------------------------------- effects that answer each other at once
MaxDepth == 4         \* calls of _actions$.next nested in one another
MaxCycleEffects == 2  \* effects registered

\* createEffect(actions$ => actions$.pipe(ofType(from), map(() => to())), config)
EffectFromTo(from, to, config) ==
  CreateEffect([EffectFn(TRUE, NoCtx) EXCEPT !.from = from, !.to = to], config)

\* Effects that emit at once: a chain X, Y, INC, the way back from Y to X, and effects
\* answering X by X, with and without dispatch.
CycleEffects ==
  { EffectFromTo("X", "Y", "omitted"), EffectFromTo("Y", "INC", "omitted"),
    EffectFromTo("Y", "X", "omitted"), EffectFromTo("X", "X", "omitted"),
    EffectFromTo("X", "X", "false") }

\* A delivery that leaves the nesting of next calls within the depth explored.
DeliverStep == Deliver /\ Len(stack') <= MaxDepth

CycleInit == StoreIdle /\ PureInit

CycleNext ==
  \/ \E rs \in {<<ReducerA>>} : Len(reducers) < 1 /\ RegisterReducers(rs)
  \/ \E effectFn \in CycleEffects :
        Len(effects) < MaxCycleEffects /\ RegisterEffects(effectFn)
  \/ \E t \in {"X", "Y"} :
        Len(dispatched) < MaxDispatch /\ Dispatch([type |-> t, context |-> NoCtx])
  \/ DeliverStep
  \/ Return

\* A call in progress runs on: the Subject passes the action to its next observer, and
\* returns after the last.
SpecCycle == CycleInit /\ [][CycleNext]_vars /\ WF_vars(DeliverStep) /\ WF_vars(Return)

\* Actions made by the creators of createAction and dispatched to a store with the
\* application's reducers.
MaxMade == 2
CreateActionNext ==
  \/ \E rs \in {<<ReducerA, ReducerB>>} : reducers = <<>> /\ RegisterReducers(rs)
  \/ \E t \in DispatchTypes, payload \in Payloads :
        /\ Len(made) < MaxMade
        /\ CreatorCall(CreateAction(t), payload)
        /\ UNCHANGED <<storeVars, selectorVars, reducerVars>>
  \/ \E i \in 1..Len(made) :
        /\ Len(dispatched) < Len(made)
        /\ Dispatch([type |-> made[i].action.type, context |-> NoCtx])
  \/ Return

SpecCreateAction == CycleInit /\ [][CreateActionNext]_vars

\* ------------------------------------------------- components with the plugin
MaxPluginDispatch == 2  \* actions that enter the store
MaxPluginSubs == 1      \* calls of this.subscribe
MaxListens == 1         \* calls of this.listen
MaxDestroy == 2         \* calls of onDestroy on one component

\* The App and a Page use the plugin; each subscribes, listens and dispatches until the
\* host destroys it, and the application goes on dispatching to the store.
PluginNext ==
  \/ reducers = <<>> /\ RegisterReducers(<<ReducerA>>)
  \/ reducers # <<>> /\ OnCreate("app")
  \/ reducers # <<>> /\ OnInitPage("page", "app")
  \/ \E c \in Components, action \in GivenActions :
        /\ components[c].destroyed = 0
        /\ Len(actionLog) < MaxPluginDispatch
        /\ PluginDispatch(c, action, "dispatch")
  \/ \E c \in Components, message \in Messages :
        /\ Len(actionLog) < MaxPluginDispatch
        /\ OnAction(c, message)
  \/ \E c \in Components, sel \in {"aValue"} :
        /\ components[c].destroyed = 0
        /\ Len(subs) < MaxPluginSubs
        /\ PluginSubscribe(c, sel, NoCallback)
  \/ \E types \in {{"X"}, {"INC", "X"}} :
        /\ components["page"].destroyed = 0
        /\ Len(listeners) < MaxListens
        /\ Listen("page", types)
  \/ \E c \in Components : components[c].destroyed < MaxDestroy /\ OnDestroy(c)
  \/ /\ reducers # <<>>
     /\ Len(actionLog) < MaxPluginDispatch
     /\ Dispatch([type |-> "INC", context |-> NoCtx])
  \/ DeliverListener
  \/ Return

SpecPlugin == CycleInit /\ [][PluginNext]_vars

\* ------------------------------------------------- effects with the operators
MaxOperatorEffects == 1   \* effects registered
MaxOperatorDispatch == 2  \* external calls of dispatch

\* createEffect(actions$ => actions$.pipe(ofType(X), withLatestFromStore(sel),
\* map(() => to())), config), the map at once or after a promise (concatMap)
EffectWithStore(sel, sync, to, config) ==
  CreateEffect([EffectFn(sync, NoCtx) EXCEPT !.to = to, !.op = "withLatestFromStore",
                                              !.sel = sel], config)

\* Effects that read the store for the follow-up they build, at once or later, one of
\* them without dispatch; and createEffect(actions$ => actions$.pipe(ofType(X),
\* propagateAction()), {dispatch: false}).
OperatorEffects ==
  { EffectWithStore("aPositive", TRUE, "Y", "omitted"),
    EffectWithStore("aValue", TRUE, "NOP", "omitted"),
    EffectWithStore("aValue", TRUE, "Y", "false"),
    EffectWithStore("aValue", FALSE, "Y", "omitted"),
    CreateEffect([EffectFn(TRUE, NoCtx) EXCEPT !.to = "same", !.op = "propagateAction"],
                 "false") }

\* A plain object used as the context of an action: it has no subscribe and no call.
PlainContexts == {"object"}

\* A callback that leaves the nesting of next calls within the depth explored.
CallbackStep == Callback /\ Len(stack') <= MaxDepth

\* The App and a Page dispatch X through the plugin, and the application dispatches X
\* with a context of its own choice or without one.
OperatorNext ==
  \/ reducers = <<>> /\ RegisterReducers(<<ReducerA>>)
  \/ reducers # <<>> /\ OnCreate("app")
  \/ reducers # <<>> /\ OnInitPage("page", "app")
  \/ \E effectFn \in OperatorEffects :
        /\ reducers # <<>>
        /\ Len(effects) < MaxOperatorEffects
        /\ RegisterEffects(effectFn)
  \/ \E c \in Components, action \in GivenActions :
        /\ effects # <<>>
        /\ Len(dispatched) < MaxOperatorDispatch
        /\ PluginDispatch(c, action, "dispatch")
  \/ \E x \in {NoCtx} \cup PlainContexts \cup Components :
        /\ effects # <<>>
        /\ x \in Components => components[x].phase # "new"
        /\ Len(dispatched) < MaxOperatorDispatch
        /\ Dispatch([type |-> "X", context |-> x])
  \/ DeliverStep
  \/ CallbackStep
  \/ CallbackReturn
  \/ Return
  \/ Resolve

SpecOperators == CycleInit /\ [][OperatorNext]_vars

\* ------------------------------------------- effects and listeners side by side
MaxFeedbackEffects == 2   \* effects registered
MaxFeedbackDispatch == 2  \* external calls of dispatch

\* Effects answering X by Y at once, later, and without dispatch, and one answering Y
\* by INC at once.
FeedbackEffects ==
  { EffectFromTo("X", "Y", "omitted"), EffectFromTo("Y", "INC", "omitted"),
    CreateEffect(EffectFn(FALSE, NoCtx), "omitted"), EffectFromTo("X", "Y", "false") }

\* The application registers its effects, a Page listens to every action, between or
\* after them, and X is dispatched.
FeedbackNext ==
  \/ reducers = <<>> /\ RegisterReducers(<<ReducerA>>)
  \/ reducers # <<>> /\ OnCreate("app")
  \/ components["app"].phase = "created" /\ OnInitPage("page", "app")
  \/ \E effectFn \in FeedbackEffects :
        /\ reducers # <<>>
        /\ Len(effects) < MaxFeedbackEffects
        /\ RegisterEffects(effectFn)
  \/ Len(listeners) < MaxListens /\ Listen("page", {"X", "Y", "INC"})
  \/ /\ reducers # <<>>
     /\ Len(dispatched) < MaxFeedbackDispatch
     /\ Dispatch([type |-> "X", context |-> NoCtx])
  \/ DeliverStep
  \/ DeliverListener
  \/ Return
  \/ Resolve

SpecFeedback == CycleInit /\ [][FeedbackNext]_vars

\* ------------------------------------------- callbacks that call dispatch
MaxReentrantSubs == 2      \* select subscriptions
MaxReentrantDispatch == 2  \* external calls of dispatch

\* The callbacks of the application's select subscriptions: one that only reads, and
\* those that dispatch INC when they are passed 0, or 1.
Callbacks ==
  { NoCallback,
    [NoCallback EXCEPT !.kind = "dispatch", !.type = "INC", !.on = [k |-> "num", v |-> 0]],
    [NoCallback EXCEPT !.kind = "dispatch", !.type = "INC", !.on = [k |-> "num", v |-> 1]] }

\* select(selectorFn).subscribe(callback), called by the application
SelectWith(sel, cb) == Subscribe("none", sel, cb) /\ UNCHANGED pluginVars

\* The application subscribes to the counter's value, registers an effect that answers
\* X by Y at once, and dispatches.
ReentrantNext ==
  \/ reducers = <<>> /\ RegisterReducers(<<ReducerA>>)
  \/ \E cb \in Callbacks : Len(subs) < MaxReentrantSubs /\ SelectWith("aValue", cb)
  \/ /\ reducers # <<>>
     /\ effects = <<>>
     /\ RegisterEffects(EffectFromTo("X", "Y", "omitted"))
  \/ \E t \in {"INC", "X"} :
        /\ reducers # <<>>
        /\ Len(dispatched) < MaxReentrantDispatch
        /\ Dispatch([type |-> t, context |-> NoCtx])
  \/ DeliverStep
  \/ CallbackStep
  \/ CallbackReturn
  \/ Return

SpecReentrant == CycleInit /\ [][ReentrantNext]_vars

\* ------------------------------------------- effects that read beside subscribers
MaxReadSubs == 2       \* select subscriptions of the application
MaxReadEffects == 2    \* effects registered
MaxReadDispatch == 2   \* external calls of dispatch

\* Effects that read the store, one when it is passed X, answering by NOP, and one when
\* it is passed INC, without dispatch; and an effect answering X by Y at once.
ReadEffects ==
  { EffectWithStore("aValue", TRUE, "NOP", "omitted"),
    [EffectWithStore("aValue", TRUE, "Y", "false") EXCEPT !.from = "INC"],
    EffectFromTo("X", "Y", "omitted") }

\* The application subscribes to the counter's value, with callbacks that read or
\* dispatch; the App registers effects and a Page listens; X and INC are dispatched.
ReadNext ==
  \/ reducers = <<>> /\ RegisterReducers(<<ReducerA>>)
  \/ reducers # <<>> /\ OnCreate("app")
  \/ components["app"].phase = "created" /\ OnInitPage("page", "app")
  \/ \E cb \in Callbacks :
        /\ effects = <<>>
        /\ Len(subs) < MaxReadSubs
        /\ SelectWith("aValue", cb)
  \/ \E effectFn \in ReadEffects :
        /\ components["app"].phase = "created"
        /\ Len(effects) < MaxReadEffects
        /\ RegisterEffects(effectFn)
  \/ Len(listeners) < MaxListens /\ Listen("page", {"X", "Y", "INC", "NOP"})
  \/ \E t \in {"INC", "X"} :
        /\ components["app"].phase = "created"
        /\ Len(dispatched) < MaxReadDispatch
        /\ PluginDispatch("app", [type |-> t, context |-> NoCtx, typeOf |-> "string"],
                          "dispatch")
  \/ DeliverStep
  \/ DeliverListener
  \/ CallbackStep
  \/ CallbackReturn
  \/ Return

SpecRead == CycleInit /\ [][ReadNext]_vars

\* ------------------------------------------- effects until no action is pending
MaxQuietEffects == 2    \* effects registered
MaxQuietDispatch == 1   \* external calls of dispatch
MaxQuietLog == 5        \* actions that enter the channel

\* Effects answering X by Y and Y by INC at once, X by Y and Y by X later, and effects
\* that read the counter's value for X and answer at once, by Y or by NOP.
QuietEffects ==
  { EffectFromTo("X", "Y", "omitted"), EffectFromTo("Y", "INC", "omitted"),
    CreateEffect(EffectFn(FALSE, NoCtx), "omitted"),
    CreateEffect([EffectFn(FALSE, NoCtx) EXCEPT !.from = "Y", !.to = "X"], "omitted"),
    EffectWithStore("aValue", TRUE, "Y", "omitted"),
    EffectWithStore("aValue", TRUE, "NOP", "omitted") }

\* A promise of an effect settles, while the channel is within the length explored.
ResolveStep == Resolve /\ Len(actionLog) < MaxQuietLog

\* The App registers its effects before it dispatches X.
QuietNext ==
  \/ reducers = <<>> /\ RegisterReducers(<<ReducerA>>)
  \/ reducers # <<>> /\ OnCreate("app")
  \/ \E effectFn \in QuietEffects :
        /\ components["app"].phase = "created"
        /\ dispatched = <<>>
        /\ Len(effects) < MaxQuietEffects
        /\ RegisterEffects(effectFn)
  \/ /\ components["app"].phase = "created"
     /\ Len(dispatched) < MaxQuietDispatch
     /\ PluginDispatch("app", [type |-> "X", context |-> NoCtx, typeOf |-> "string"],
                       "dispatch")
  \/ DeliverStep
  \/ CallbackStep
  \/ CallbackReturn
  \/ Return
  \/ ResolveStep

\* A call in progress runs on to its return, and a promise settles in a later turn.
SpecQuiet ==
  /\ CycleInit /\ [][QuietNext]_vars
  /\ WF_vars(DeliverStep) /\ WF_vars(CallbackStep) /\ WF_vars(CallbackReturn)
  /\ WF_vars(Return) /\ WF_vars(ResolveStep)

\* ------------------------------------------- composed selectors on published states
MaxComposedDispatch == 2   \* external calls of dispatch
MaxComposedCalls == 3      \* calls of the composed selector

ComposedInit ==
  /\ StoreInit
  /\ selector = CreateSelector(<<"inner", "b">>, "function")
  /\ selCalls = <<>>
  /\ inner = InnerSelector
  /\ created = "function"
  /\ ons = <<>>
  /\ redCall = NoCall
  /\ onCalls = <<>>
  /\ made = <<>>
  /\ fn = EffectFn(TRUE, NoCtx)
  /\ fnCalls = <<>>

\* The application registers reducers and dispatches, and calls the composed selector
\* with the current state or with a state published before.
ComposedNext ==
  \/ \E rs \in RegisterChoices :
        Len(reducers) + Len(rs) <= MaxReducers /\ RegisterReducers(rs)
  \/ \E t \in DispatchTypes :
        /\ Len(dispatched) < MaxComposedDispatch
        /\ Dispatch([type |-> t, context |-> NoCtx])
  \/ Return
  \/ \E i \in 1..Len(published) :
        /\ Idle
        /\ Len(selCalls) < MaxComposedCalls
        /\ CallComposed(published[i].value)
        /\ UNCHANGED <<storeVars, reducerVars, creatorVars>>

SpecComposed == ComposedInit /\ [][ComposedNext]_vars

\* ------------------------------------------- the configuration of an effect
MaxFnCalls == 3          \* calls and assignments of the application on its function
MaxConfigEffects == 2    \* effects registered
MaxConfigDispatch == 1   \* external calls of dispatch

\* The second argument of createEffect: omitted (or undefined), or an object whose
\* dispatch property is undefined (as in {}), true, false, or 0.
Configs == {"omitted", "undefined", "true", "false", "0"}

\* The application passes its function to createEffect, or not, writes to the
\* function's property and to the object it holds, registers the function as it is by
\* then, and dispatches X.
ConfigNext ==
  \/ \E config \in Configs :
        /\ Len(fnCalls) < MaxFnCalls
        /\ CreateEffectCall(config)
        /\ UNCHANGED <<storeVars, selectorVars, reducerVars, made>>
  \/ \E v \in {"true", "false"} :
        /\ Len(fnCalls) < MaxFnCalls
        /\ AssignProperty(v)
        /\ UNCHANGED <<storeVars, selectorVars, reducerVars, made>>
  \/ \E v \in {"true", "false"} :
        /\ Len(fnCalls) < MaxFnCalls
        /\ SetFlag(v)
        /\ UNCHANGED <<storeVars, selectorVars, reducerVars, made>>
  \/ Len(effects) < MaxConfigEffects /\ RegisterEffects(fn)
  \/ /\ effects # <<>>
     /\ Len(dispatched) < MaxConfigDispatch
     /\ Dispatch([type |-> "X", context |-> NoCtx])
  \/ DeliverStep
  \/ Return

SpecConfig == CycleInit /\ [][ConfigNext]_vars

\* ------------------------------------------------------------------ claims
Num(n) == [k |-> "num", v |-> n]
IsExternal(action) == action.type \in DispatchTypes

\* The types a registered descriptor for key k has a handler for.
HandledTypes(k) == IF k = "a" THEN {"INC", "Y"} ELSE {"X"}

\* The value a slice is folded from: the constructor's, or else the descriptor's.
Base(k) ==
  IF initialState.slices[k] # Undef THEN initialState.slices[k].val
  ELSE IF k = "a" THEN InitialA.val ELSE InitialB.val

\* The value of slice k after the first n actions of actionLog, k's reducer
\* having been registered after regAt[k] of them.
ExpectedVal(k, n) ==
  Base(k) + Cardinality({j \in (regAt[k] + 1)..n : actionLog[j].type \in HandledTypes(k)})

\* A sequence without its repetitions of the preceding element.
RECURSIVE Compress(_)
Compress(seq) ==
  IF Len(seq) <= 1 THEN seq
  ELSE LET init == Compress(SubSeq(seq, 1, Len(seq) - 1)) IN
       IF seq[Len(seq)] = seq[Len(seq) - 1] THEN init ELSE Append(init, seq[Len(seq)])

\* The selected values of the state versions since the subscription, its replay included.
Seen(sub) ==
  [j \in 1..(Len(published) - sub.at + 1) |->
     SelectorFn(sub.sel, published[sub.at + j - 1].value)]

\* C1: on a store constructed with {} with the counter reducer registered, a
\* subscriber of the counter's value that subscribed before any dispatch has received
\* exactly 0, 1, ..., n, where n is the number of incrementing actions folded so far.
C1_CounterSequence ==
  \A i \in 1..Len(subs) :
    (/\ initialState.slices = EmptySlices
     /\ subs[i].sel = "aValue"
     /\ subs[i].atAction = 0
     /\ subs[i].received[1] = Num(0))
    => subs[i].received = [j \in 1..(ExpectedVal("a", Len(actionLog)) + 1) |-> Num(j - 1)]

C1_Witness ==
  /\ Idle
  /\ initialState.slices = EmptySlices
  /\ dispatched = <<[type |-> "INC", context |-> NoCtx], [type |-> "INC", context |-> NoCtx]>>
  /\ \E i \in 1..Len(subs) :
       /\ subs[i].sel = "aValue" /\ subs[i].atAction = 0
       /\ subs[i].received = <<Num(0), Num(1), Num(2)>>

\* C2: the actions the application dispatches one after another are folded in that
\* order: the state version published for the n-th action holds, for every registered
\* slice, the fold of the first n actions; and every select subscriber has received the
\* versions since its subscription in their order, without any whose selected value
\* differs from the one before it.
C2_Ordering ==
  /\ SelectSeq(actionLog, IsExternal) = dispatched
  /\ \A i \in 1..Len(published) :
       published[i].cause = "scan" =>
         \A k \in Keys :
           (regAt[k] # -1 /\ regAt[k] < published[i].action)
             => published[i].value.slices[k].val = ExpectedVal(k, published[i].action)
  /\ \A i \in 1..Len(subs) : subs[i].received = Compress(Seen(subs[i]))

C2_Witness ==
  /\ Idle
  /\ Len(dispatched) = 2 /\ dispatched[1].type = "INC" /\ dispatched[2].type = "X"
  /\ regAt["a"] = 0 /\ regAt["b"] = 0
  /\ \E i \in 1..Len(subs) : subs[i].sel = "whole" /\ Len(subs[i].received) >= 3

\* A step in which an action is folded, and the action.
Folds == Len(actionLog') = Len(actionLog) + 1
Folded == actionLog'[Len(actionLog')]

\* Whether the transition of descriptor r changes its slice of the published state.
Changes(r, action) ==
  ReducerFn(r, state.slices[r.path], action, nextRef) # state.slices[r.path]

Received(ss) == [i \in 1..Len(ss) |-> ss[i].received]

\* C3: when every registered transition returns its input slice unchanged for the
\* dispatched action, the published container is the previously published one and no
\* select subscriber receives an emission.
C3_NoOpIdentity ==
  [][(Folds /\ \A i \in 1..Len(reducers) : ~Changes(reducers[i], Folded))
       => (state' = state /\ Received(subs') = Received(subs))]_vars

\* C4: when, of two registered descriptors with distinct keys, the transition of one
\* changes its slice and that of the other does not, the other's slice in the newly
\* published state is the one of the previously published state.
C4_SliceIsolation ==
  [][Folds =>
       \A i, j \in 1..Len(reducers) :
         (/\ reducers[i].path # reducers[j].path
          /\ Changes(reducers[i], Folded)
          /\ ~Changes(reducers[j], Folded))
         => state'.slices[reducers[j].path] = state.slices[reducers[j].path]]_vars

CountType(log, type) == Cardinality({j \in 1..Len(log) : log[j].type = type})

\* The follow-up actions due: one for each action of an effect's type and each
\* dispatching effect registered before that action.
FollowUpsDue ==
  Cardinality({p \in (1..Len(actionLog)) \X (1..Len(effects)) :
                 /\ actionLog[p[1]].type = effects[p[2]].from
                 /\ effects[p[2]].rxEffect # "false"
                 /\ effAt[p[2]] < p[1]})

Quiet == Idle /\ pending = <<>>

\* C5: once a dispatch of X has returned and the effect has emitted, the log holds one
\* Y for each X a registered dispatching effect received, the published slice of the
\* reducer listening for Y counts each Y once, and each Y the effect emitted without a
\* context carries the context the store had when it was emitted.
C5_EffectFeedback ==
  /\ Quiet =>
       /\ CountType(actionLog, "Y") = FollowUpsDue
       /\ regAt["a"] # -1 => state.slices["a"].val = ExpectedVal("a", Len(actionLog))
  /\ \A i \in 1..Len(emissions) :
       (emissions[i].at > 0 /\ emissions[i].action.context = NoCtx
          /\ emissions[i].context # NoCtx)
       => /\ actionLog[emissions[i].at].type = "Y"
          /\ actionLog[emissions[i].at].context = emissions[i].context

C5_Witness ==
  /\ Quiet
  /\ regAt["a"] = 0
  /\ actionLog = <<[type |-> "X", context |-> NoCtx], [type |-> "Y", context |-> "app"]>>
  /\ state.slices["a"].val = Base("a") + 1

\* C6: no value emitted by an effect registered with {dispatch: false} is passed to
\* dispatch; when no other effect is registered, the actions on actions$ are the ones the
\* application dispatched and each of them published one state.
C6_NoDispatch ==
  /\ \A i \in 1..Len(emissions) :
       effects[emissions[i].effect].rxEffect = "false" => emissions[i].at = 0
  /\ CountType(actionLog, "Y")
       = Cardinality({i \in 1..Len(emissions) : effects[emissions[i].effect].rxEffect # "false"})
  /\ (\A i \in 1..Len(effects) : effects[i].rxEffect = "false")
       => /\ actionLog = dispatched
          /\ Cardinality({i \in 1..Len(published) : published[i].cause = "scan"})
               = Len(dispatched)

C6_Witness ==
  /\ Quiet
  /\ \E i \in 1..Len(emissions) : effects[emissions[i].effect].rxEffect = "false"
  /\ Len(dispatched) = 2

\* C7: the action that enters dispatch for an emitted action is that action with the
\* store's context when the store has one at the emission and the action has none, and
\* the emitted action itself otherwise.
C7_ContextInjection ==
  \A i \in 1..Len(emissions) :
    emissions[i].at > 0 =>
      actionLog[emissions[i].at] =
        IF emissions[i].context # NoCtx /\ emissions[i].action.context = NoCtx
          THEN [type |-> emissions[i].action.type, context |-> emissions[i].context]
          ELSE emissions[i].action

\* Two emissions of one effect, the context set again between them.
C7_Witness ==
  /\ Len(emissions) = 2
  /\ emissions[1].at > 0 /\ emissions[2].at > 0
  /\ emissions[1].context = "app" /\ emissions[2].context = "page"
  /\ actionLog[emissions[1].at].context = "app"
  /\ actionLog[emissions[2].at].context = "page"

\* The keys of the descriptors a registerReducers step registers.
Registered == {reducers'[i].path : i \in (Len(reducers) + 1)..Len(reducers')}
InitialOf(k) ==
  reducers'[CHOOSE i \in (Len(reducers) + 1)..Len(reducers') : reducers'[i].path = k].initialState

\* C10: registerReducers leaves every slice present in the published state as it is,
\* whatever was dispatched before, and gives a registered key that is absent its
\* descriptor's initial value.
C10_BackFill ==
  [][reducers' # reducers =>
       \A k \in Keys :
         IF state.slices[k] # Undef THEN state'.slices[k] = state.slices[k]
         ELSE IF k \in Registered THEN state'.slices[k] = InitialOf(k)
         ELSE state'.slices[k] = Undef]_vars

\* b registered after a dispatch changed a's slice.
C10_Witness ==
  /\ regAt["a"] = 0 /\ regAt["b"] = 1
  /\ published[Len(published)].cause = "registerReducers"
  /\ state.slices["a"].val = Base("a") + 1
  /\ state.slices["a"] = published[Len(published) - 1].value.slices["a"]
  /\ state.slices["b"] = InitialB

\* Two calls whose input selectors' results are pairwise the same objects.
SameInputs(c, d) ==
  Len(c.args) = Len(d.args) /\ \A i \in 1..Len(c.args) : c.args[i] = d.args[i]

\* C8: of two consecutive calls of a composed selector with pairwise reference-equal
\* inputs, the second returns the result of the first and does not invoke project;
\* project was invoked by the first unless that was itself such a second call.
C8_MemoHit ==
  \A i \in 1..(Len(selCalls) - 1) :
    SameInputs(selCalls[i], selCalls[i + 1]) =>
      /\ selCalls[i + 1].result = selCalls[i].result
      /\ ~selCalls[i + 1].projected
      /\ selCalls[i].projected <=> (i = 1 \/ ~SameInputs(selCalls[i - 1], selCalls[i]))

\* Two calls with an undefined input and an undefined result, then two with an object.
C8_Witness ==
  /\ Len(selCalls) = 3
  /\ selCalls[1].args = <<Undef>> /\ selCalls[1].result = Undef
  /\ selCalls[2].args = <<Undef>> /\ ~selCalls[2].projected
  /\ selCalls[3].args # <<Undef>> /\ selCalls[3].projected

SpecificMatches(type) ==
  {i \in 1..Len(ons) : ~ons[i].isCatchAll /\ type \in Range(ons[i].types)}
CatchAlls == {i \in 1..Len(ons) : ons[i].isCatchAll}
Least(S) == CHOOSE i \in S : \A j \in S : i <= j
Given(call) == IF call.slice = Undef THEN InitialA ELSE call.slice

\* C9: a reducer applies its first specific binding that lists the action's type; when
\* none does, it applies its catch-all binding, wherever that stands among the bindings;
\* with neither it returns the slice it was given.
C9_HandlerPrecedence ==
  redCall # NoCall =>
    IF SpecificMatches(redCall.type) # {}
      THEN redCall.result.val = Given(redCall).val + ons[Least(SpecificMatches(redCall.type))].add
    ELSE IF CatchAlls # {}
      THEN redCall.result.val = Given(redCall).val + ons[Least(CatchAlls)].add
    ELSE redCall.result = Given(redCall)

\* The catch-all stands first and a specific binding after it matches.
C9_Witness ==
  /\ Len(ons) = 3
  /\ ons[1].isCatchAll /\ ~ons[2].isCatchAll /\ ~ons[3].isCatchAll
  /\ redCall.type = "INC"
  /\ SpecificMatches("INC") = {3}
  /\ redCall.result.val = redCall.slice.val + ons[3].add

\* What one application of the transition of key k adds to its slice's value.
Applied(k, action) == IF action.type \in HandledTypes(k) THEN 1 ELSE 0
Last(seq) == seq[Len(seq)]
\* What a subscription has received once the state v has been published.
After(sub, v) ==
  IF SelectorFn(sub.sel, v) # sub.last THEN Append(sub.received, SelectorFn(sub.sel, v))
  ELSE sub.received

\* C11: registerReducers leaves the value of every key present in the current state,
\* the constructor's included, gives an absent registered key its descriptor's initial
\* value, and, when it filled a key, publishes the container without an action and
\* passes it to the select subscribers in the same step; a dispatch folds a registered
\* key from the value the published state holds for it.
C11_BackFillPublishes ==
  [][/\ reducers' # reducers =>
          /\ \A k \in Keys :
                IF state.slices[k] # Undef THEN state'.slices[k].val = state.slices[k].val
                ELSE k \in Registered => state'.slices[k] = InitialOf(k)
          /\ actionLog' = actionLog
          /\ (\E k \in Registered : state.slices[k] = Undef) =>
                /\ published' = Append(published, [value |-> state', cause |-> "registerReducers",
                                                   action |-> Len(actionLog)])
                /\ \A i \in 1..Len(subs) : subs'[i].received = After(subs[i], state')
     /\ Folds =>
          \A i \in 1..Len(reducers) :
            LET k == reducers[i].path IN
            state'.slices[k].val = state.slices[k].val + Applied(k, Folded)]_vars

\* a given to the constructor, a and b registered under the eyes of a subscriber, and
\* an incrementing action folded from the constructor's value.
C11_Witness ==
  /\ Idle
  /\ initialState.slices["a"] # Undef
  /\ regAt["a"] = 0 /\ regAt["b"] = 0
  /\ Len(published) = 3 /\ published[2].cause = "registerReducers"
  /\ published[2].value.slices["a"] = initialState.slices["a"]
  /\ published[2].value.slices["b"] = InitialB
  /\ \E i \in 1..Len(subs) :
       subs[i].sel = "whole" /\ subs[i].at = 1 /\ Len(subs[i].received) = 3
  /\ state.slices["a"].val = initialState.slices["a"].val + 1

Copies(k) == Cardinality({i \in 1..Len(reducers) : reducers[i].path = k})

Paths(rs) == {rs[i].path : i \in 1..Len(rs)}

\* C12: a registerReducers call whose descriptors are all registered already (the
\* application has one descriptor for each key) leaves the published state as it is
\* and passes nothing to the select subscribers; and a dispatch changes the slice of a
\* descriptor registered more than once by one application of its transition.
C12_Idempotent ==
  [][/\ (reducers' # reducers /\ Registered \subseteq Paths(reducers))
        => /\ state' = state
           /\ published' = published
           /\ Received(subs') = Received(subs)
     /\ Folds =>
          \A k \in Keys :
            Copies(k) >= 2 => state'.slices[k].val = state.slices[k].val + Applied(k, Folded)]_vars

\* The counter's descriptor registered twice and two incrementing actions folded.
C12_Witness ==
  /\ Idle
  /\ Len(reducers) = 2 /\ Paths(reducers) = {"a"}
  /\ Len(actionLog) = 2 /\ actionLog[1].type = "INC" /\ actionLog[2].type = "INC"
  /\ regAt["a"] = 0
  /\ state.slices["a"].val = Base("a") + 2
  /\ Cardinality({i \in 1..Len(published) : published[i].cause = "registerReducers"}) <= 1

\* The objects of the caller's initialState.
CallerRefs ==
  {initialState.ref} \cup {initialState.slices[k].ref : k \in {j \in Keys : initialState.slices[j] # Undef}}
\* Whether a container is one of the caller's objects or holds one.
Shares(c) ==
  \/ c.ref \in CallerRefs
  \/ \E k \in Keys : c.slices[k] # Undef /\ c.slices[k].ref \in CallerRefs

\* C13: the container the store holds, and every container it has published, is
\* neither the caller's initialState nor holds one of its objects, and no select
\* subscriber has received one of the caller's objects.
C13_NoAliasing ==
  /\ ~Shares(state)
  /\ \A i \in 1..Len(published) : ~Shares(published[i].value)
  /\ \A i \in 1..Len(subs) : \A j \in 1..Len(subs[i].received) :
       subs[i].received[j].k = "ref" => subs[i].received[j].v \notin CallerRefs

\* C14: the first value of a select subscription is the selector's value of the state
\* published last before it, and every later one that of a state published after it.
C14_Replay ==
  \A i \in 1..Len(subs) :
    /\ subs[i].at = Len(published) => subs[i].received = <<SelectorFn(subs[i].sel, state)>>
    /\ subs[i].received[1] = SelectorFn(subs[i].sel, published[subs[i].at].value)
    /\ \A j \in 2..Len(subs[i].received) :
         \E n \in (subs[i].at + 1)..Len(published) :
           subs[i].received[j] = SelectorFn(subs[i].sel, published[n].value)

\* A subscription made after a registration and a dispatch, and a later value.
C14_Witness ==
  \E i \in 1..Len(subs) :
    /\ subs[i].sel = "aValue"
    /\ subs[i].atAction >= 1 /\ subs[i].at >= 3
    /\ published[2].cause = "registerReducers"
    /\ subs[i].received[1] = Num(Base("a") + 1)
    /\ Len(subs[i].received) = 2

\* C15: when a state is published, a select subscriber receives its selected value
\* exactly when that differs from the value the subscriber received last; no two
\* values it received one after the other are the same.
C15_Distinct ==
  [][\A i \in 1..Len(subs) :
       /\ published' # published =>
            subs'[i].received =
              IF SelectorFn(subs[i].sel, state') # Last(subs[i].received)
                THEN Append(subs[i].received, SelectorFn(subs[i].sel, state'))
                ELSE subs[i].received
       /\ \A j \in 1..(Len(subs'[i].received) - 1) :
            subs'[i].received[j] # subs'[i].received[j + 1]]_vars

\* A subscriber of the counter's value that was passed over by a state that changed b
\* only, and received the next.
C15_Witness ==
  \E i \in 1..Len(subs) :
    /\ subs[i].sel = "aValue" /\ subs[i].at = 2
    /\ Len(published) = 4
    /\ published[3].value.slices["a"].val = published[2].value.slices["a"].val
    /\ published[4].value.slices["a"].val # published[3].value.slices["a"].val
    /\ Len(subs[i].received) = 2

\* The pairs of types <<from, to>> of the registered effects whose output is dispatched.
Edges ==
  {<<effects[i].from, effects[i].to>> : i \in {j \in 1..Len(effects) : effects[j].rxEffect # "false"}}
\* The types reached from the types S by at most n effects.
RECURSIVE ReachFrom(_, _)
ReachFrom(S, n) ==
  IF n = 0 THEN S ELSE ReachFrom(S \cup {e[2] : e \in {d \in Edges : d[1] \in S}}, n - 1)
\* No type is answered, through dispatching effects, by an action of that type.
Acyclic ==
  \A t \in Types :
    t \notin ReachFrom({e[2] : e \in {d \in Edges : d[1] = t}}, Cardinality(Types))

Count(seq, P(_)) == Cardinality({i \in 1..Len(seq) : P(seq[i])})
InReducer(t) == t.in = "reducer"
InSelector(t) == t.in = "selector"
FromDispatch(r) == r.from = "dispatch"
FromSelect(r) == r.from = "select"

\* C17: each exception thrown by a transition while an action is folded has left the
\* dispatch call once that has returned, and each exception thrown by a selector
\* function has left the call that subscribed through select.
C17_ErrorsReachCaller ==
  Idle => /\ Count(raised, FromDispatch) = Count(thrown, InReducer)
          /\ Count(raised, FromSelect) = Count(thrown, InSelector)

\* The index in actionLog of the first action a transition threw on, or 0.
ThrowAt ==
  LET idx == {i \in 1..Len(thrown) : thrown[i].in = "reducer"} IN
  IF idx = {} THEN 0 ELSE thrown[CHOOSE i \in idx : \A j \in idx : i <= j].action

\* C18: after a transition threw while action A was folded, the store holds the state
\* published last before A; a select subscription made afterwards has received the
\* selector's value of that state and not the transition's error; and registerReducers
\* raises nothing and gives the keys it registers a value.
C18_StateAfterError ==
  ThrowAt # 0 =>
    /\ \A i \in 1..Len(published) :
         published[i].cause = "scan" => published[i].action < ThrowAt
    /\ \A i \in 1..Len(subs) :
         subs[i].atAction >= ThrowAt =>
           /\ subs[i].error # "Error"
           /\ subs[i].sel # "aDeep" =>
                subs[i].received[1] = SelectorFn(subs[i].sel, published[subs[i].at].value)
    /\ \A i \in 1..Len(raised) : raised[i].from # "registerReducers"
    /\ \A k \in Paths(reducers) : state.slices[k] # Undef

\* Whether a registered transition throws on the action.
ThrowsOn(action) ==
  \E i \in 1..Len(reducers) :
    ReducerFn(reducers[i], scanAcc.slices[reducers[i].path], action, nextRef) = Thrown

\* C19: an action the application dispatches and no registered transition throws on is
\* folded by every registered reducer, published, and passed to the select subscribers
\* and to the effects, also after a transition threw on an action dispatched earlier.
C19_ErrorIsolated ==
  [][(Idle /\ Folds /\ ~ThrowsOn(Folded)) =>
       /\ Len(published') = Len(published) + 1
       /\ Last(published').value = state'
       /\ \A i \in 1..Len(reducers) :
            ~Changes(reducers[i], Folded) =>
              state'.slices[reducers[i].path].val = state.slices[reducers[i].path].val
       /\ \A i \in 1..Len(reducers) :
            Changes(reducers[i], Folded) =>
              state'.slices[reducers[i].path].val # state.slices[reducers[i].path].val
       /\ \A i \in 1..Len(subs) :
            subs[i].error # "TypeError" => subs'[i].received = After(subs[i], state')
       /\ stack'[1].action = Folded]_vars

\* C20: a createSelector call whose last argument is not a function ends with a
\* configuration error, and returns no selector that could be called.
C20_ConfigError ==
  (created # "none" /\ selector.projectionFn # "function") =>
    /\ created = "Error"
    /\ selCalls = <<>>
\* The call on(...actionCreators, fn) mixes the catch-all marker with another reference.
Mixes(actionCreators) == "anyAction" \in Range(actionCreators) /\ Len(actionCreators) > 1
Succeeded(c) == ~Mixes(c.actionCreators)

\* C21: a call of on with the catch-all marker and any other action reference ends
\* with the configuration error and yields no binding; every other call returns a
\* binding for the types of its references, a catch-all binding exactly when its one
\* reference is the marker; the bindings the application holds are those of the calls
\* that did not mix, in the order of the calls.
C21_MixedCatchAll ==
  /\ \A i \in 1..Len(onCalls) :
       LET c == onCalls[i] IN
       IF Mixes(c.actionCreators) THEN c.result = ConfigError
       ELSE /\ c.result.kind = "on"
            /\ c.result.isCatchAll = (c.actionCreators = <<"anyAction">>)
            /\ Len(c.result.types) = Len(c.actionCreators)
            /\ \A j \in 1..Len(c.actionCreators) :
                 c.actionCreators[j] # "anyAction" => c.result.types[j] = c.actionCreators[j]
  /\ LET ok == SelectSeq(onCalls, Succeeded) IN
       ons = [i \in 1..Len(ok) |-> ok[i].result]

\* A call with the marker alone, one that mixed, one with two concrete references, and
\* the reducer made from the two bindings called.
C21_Witness ==
  /\ Len(onCalls) = 3
  /\ onCalls[1].actionCreators = <<"anyAction">> /\ onCalls[1].result.isCatchAll
  /\ onCalls[2].actionCreators = <<"anyAction", "X">> /\ onCalls[2].result = ConfigError
  /\ onCalls[3].actionCreators = <<"INC", "X">>
  /\ onCalls[3].result.types = <<"INC", "X">> /\ ~onCalls[3].result.isCatchAll
  /\ Len(ons) = 2
  /\ redCall # NoCall
\* C22: the transition called with an undefined slice returns the descriptor's initial
\* value, whatever the action, also one that a specific or the catch-all binding handles.
C22_DefaultState ==
  (redCall # NoCall /\ redCall.slice = Undef) => redCall.result = InitialA

\* C22, amended: the transition called with an undefined slice returns the initial
\* value itself for an action no binding handles, and for any other action what the
\* binding that handles it makes of the initial value.
C22_DefaultParameter ==
  (redCall # NoCall /\ redCall.slice = Undef) =>
    IF SpecificMatches(redCall.type) # {}
      THEN /\ redCall.result.val = InitialA.val + ons[Least(SpecificMatches(redCall.type))].add
           /\ redCall.result.ref # InitialA.ref
    ELSE IF CatchAlls # {}
      THEN /\ redCall.result.val = InitialA.val + ons[Least(CatchAlls)].add
           /\ redCall.result.ref # InitialA.ref
    ELSE redCall.result = InitialA

\* A call with an undefined slice and an action that the second of two bindings handles.
C22_Witness ==
  /\ redCall.slice = Undef
  /\ redCall.type = "INC"
  /\ SpecificMatches("INC") = {2} /\ CatchAlls = {3}
  /\ redCall.result.val = InitialA.val + ons[2].add
  /\ redCall.result # InitialA
\* C23: a creator called without an argument returns an action with its type alone, and
\* called with a payload p an action with its type and p as `payload` and nothing else;
\* the action's type is the creator's, whatever the payload holds.
C23_ActionShape ==
  \A i \in 1..Len(made) :
    LET c == made[i] IN
    /\ c.action.type = c.creator
    /\ c.action.value = Absent
    /\ c.action.payload = IF c.payload.val.k = "undefined" THEN Absent ELSE c.payload.val

\* Whether onDestroy of the component c runs in this step.
Destroys(c) == components'[c].destroyed > components[c].destroyed

\* C24: onDestroy leaves the component's list of tracked subscriptions empty; a second
\* onDestroy changes nothing but the count of its calls; and once a component has been
\* destroyed, no subscription made through its this.subscribe or this.listen is passed a
\* value or an action again.
C24_AutoCleanup ==
  [][\A c \in Components :
       /\ Destroys(c) => components'[c].subscriptions = <<>>
       /\ Destroys(c) /\ components[c].destroyed > 0 =>
            /\ subs' = subs
            /\ listeners' = listeners
            /\ components' = [components EXCEPT ![c].destroyed = @ + 1]
       /\ components[c].destroyed > 0 =>
            /\ \A i \in 1..Len(subs) :
                 subs[i].owner = c => subs'[i].received = subs[i].received
            /\ \A j \in 1..Len(listeners) :
                 listeners[j].owner = c => listeners'[j].received = listeners[j].received]_vars

\* C24 witness: the Page subscribed and listened, was passed a value and an action, and
\* was destroyed twice; then an action its listener asks for changed what it selects.
C24_Witness ==
  /\ Idle
  /\ components["page"].destroyed = 2
  /\ components["page"].subscriptions = <<>>
  /\ \E i \in 1..Len(subs) :
       /\ subs[i].owner = "page" /\ subs[i].closed
       /\ subs[i].last # SelectorFn(subs[i].sel, state)
  /\ \E j \in 1..Len(listeners) :
       /\ listeners[j].owner = "page" /\ listeners[j].closed
       /\ Len(listeners[j].received) = 1
       /\ actionLog[Len(actionLog)].type \in listeners[j].types
       /\ listeners[j].received[1] < Len(actionLog)

\* C25: the action that a call of a component's this.dispatch, or of its onAction with a
\* message whose type is a string, passes to the store has the caller's type and the
\* component as its context, whatever context the caller's object had; the caller's
\* object is as it was; and a message whose type is not a string enters no dispatch.
C25_ContextOnDispatch ==
  \A i \in 1..Len(sent) :
    LET s == sent[i] IN
    /\ s.after = s.given
    /\ s.via = "dispatch" => s.at > 0
    /\ s.given.typeOf # "string" => s.at = 0
    /\ s.at > 0 =>
         /\ s.at <= Len(actionLog)
         /\ actionLog[s.at] = [type |-> s.given.type, context |-> s.component]

\* C25 witness: the host passed the App a message of type X that carried the Page as
\* its context, and the action entered the store with the App as its context.
C25_Witness ==
  /\ sent # <<>>
  /\ sent[1].via = "onAction"
  /\ sent[1].component = "app"
  /\ sent[1].given.context = "page"
  /\ sent[1].at > 0
  /\ actionLog[sent[1].at].context = "app"

\* The pairs withLatestFromStore has passed downstream for the action n that the
\* effect e received.
PairsOf(e, n) == {i \in 1..Len(pairs) : pairs[i].effect = e /\ pairs[i].source = n}

\* C26: for an action whose context has a subscribe method, withLatestFromStore passes
\* one pair downstream, never more, whose value is what the selector gives for the
\* store's state at that time, and once no call is in progress the subscription it made
\* for the action has ended; for an action without such a context it passes no pair and
\* the effect's stream has ended with the error.
C26_OnePair ==
  \A e \in 1..Len(effects) :
    effects[e].op = "withLatestFromStore" =>
      \A n \in Range(effReceived[e]) :
        actionLog[n].type = effects[e].from =>
          /\ Cardinality(PairsOf(e, n)) <= 1
          /\ \A i \in PairsOf(e, n) : pairs[i].value = pairs[i].current
          /\ Idle =>
               IF HasSubscribe(actionLog[n].context)
                 THEN /\ Cardinality(PairsOf(e, n)) = 1
                      /\ \A k \in 1..Len(subs) :
                           subs[k].cb.kind = "operator" /\ subs[k].cb.source = n
                             => subs[k].closed
                 ELSE /\ PairsOf(e, n) = {}
                      /\ e \in effError

\* C27: for an action whose context has a call method, propagateAction calls it once,
\* with an action of the same type and without a context; for an action without such a
\* context it calls nothing; and in both cases the action it was passed goes downstream
\* as it is.
C27_PropagateAction ==
  \A e \in 1..Len(effects) :
    effects[e].op = "propagateAction" =>
      \A n \in Range(effReceived[e]) :
        actionLog[n].type = effects[e].from =>
          LET action == actionLog[n]
              cs == {i \in 1..Len(calls) : calls[i].effect = e /\ calls[i].n = n}
          IN /\ IF HasCall(action.context)
                  THEN /\ Cardinality(cs) = 1
                       /\ \A i \in cs :
                            /\ calls[i].context = action.context
                            /\ calls[i].action = [type |-> action.type, context |-> NoCtx]
                  ELSE cs = {}
             /\ \E i \in 1..Len(emissions) :
                  emissions[i].effect = e /\ emissions[i].action = action

\* C27 witness: the effect was passed an action the Page dispatched and one without a
\* context; the Page's call was called once, and both actions went downstream.
C27_Witness ==
  /\ Idle
  /\ Len(effects) = 1 /\ effects[1].op = "propagateAction"
  /\ Len(effReceived[1]) = 2
  /\ actionLog[1].context = "page" /\ actionLog[2].context = NoCtx
  /\ Len(calls) = 1 /\ calls[1].context = "page" /\ calls[1].action.context = NoCtx
  /\ Len(emissions) = 2 /\ emissions[1].action.context = "page"

\* How often the action n was passed to an observer that has received `received`.
Passed(received, n) == Cardinality({p \in 1..Len(received) : received[p] = n})

\* The actions a reducer binding of ReducerA handles among the first n dispatched.
Handled(n) == Cardinality({k \in 1..n : actionLog[k].type \in {"INC", "Y"}})

\* C28: an action that an effect with dispatch emits is one entry of the action channel,
\* of its own; scan folds it once, the state it publishes for it counting it once; and
\* every effect and every subscription of actions$ made before it is passed it at most
\* once, and once when no call is in progress.
C28_FeedbackDelivery ==
  \A i \in 1..Len(emissions) :
    LET m == emissions[i].at IN
    m > 0 =>
      /\ m <= Len(actionLog)
      /\ actionLog[m].type = emissions[i].action.type
      /\ \A j \in 1..Len(emissions) : emissions[j].at = m => j = i
      /\ \E k \in 1..Len(published) :
           /\ published[k].cause = "scan" /\ published[k].action = m
           /\ published[k].value.slices["a"].val = Handled(m)
           /\ \A k2 \in 1..Len(published) :
                published[k2].cause = "scan" /\ published[k2].action = m => k2 = k
      /\ \A e \in 1..Len(effects) :
           effAt[e] < m =>
             /\ Passed(effReceived[e], m) <= 1
             /\ Idle => Passed(effReceived[e], m) = 1
      /\ \A j \in 1..Len(listeners) :
           listeners[j].at < m =>
             /\ Passed(listeners[j].received, m) <= 1
             /\ Idle => Passed(listeners[j].received, m) = 1

\* C28 witness: two effects and a listener were all passed the follow-up Y that the
\* first effect emitted at once for X, and the follow-up INC the second emitted for Y.
C28_Witness ==
  /\ Idle
  /\ Len(effects) = 2 /\ Len(listeners) = 1
  /\ Len(emissions) = 2
  /\ emissions[1].effect = 1 /\ emissions[1].at = 2
  /\ emissions[2].effect = 2 /\ emissions[2].at = 3
  /\ \A n \in 1..3 : Passed(effReceived[1], n) = 1 /\ Passed(effReceived[2], n) = 1
                     /\ Passed(listeners[1].received, n) = 1
  /\ state.slices["a"].val = 2

\* Whether an observer is passed its actions in the order of the action channel.
Increasing(received) ==
  \A p, q \in 1..Len(received) : p < q => received[p] < received[q]

\* Whether an observer was passed the action n before the action m.
PassedBefore(received, n, m) ==
  \E p, q \in 1..Len(received) : p < q /\ received[p] = n /\ received[q] = m

\* The dispatch calls that effects have made while they were passed an action.
EffectReentries == {i \in 1..Len(reentries) : reentries[i].by = "effect"}

\* C30 as claimed: every effect and every subscription of actions$ is passed the
\* actions in the order in which scan folded them.
C30_FoldOrder ==
  /\ \A e \in 1..Len(effects) : Increasing(effReceived[e])
  /\ \A j \in 1..Len(listeners) : Increasing(listeners[j].received)

\* C30 amended: an observer of the action channel is passed the actions in the order
\* in which scan folded them while no effect subscribed before it has dispatched at
\* once; and when an effect answers X by dispatching Y at once, it and the observers
\* subscribed before it are passed X before Y, those subscribed after it Y before X.
C30_OrderByPosition ==
  /\ \A e \in 1..Len(effects) :
       (\A i \in EffectReentries : reentries[i].who >= e) => Increasing(effReceived[e])
  /\ \A j \in 1..Len(listeners) :
       (\A i \in EffectReentries : reentries[i].who > listeners[j].before)
         => Increasing(listeners[j].received)
  /\ \A i \in EffectReentries :
       LET r == reentries[i] IN
       /\ \A e \in 1..Len(effects) :
            effAt[e] < r.source =>
              IF e <= r.who
                THEN /\ Passed(effReceived[e], r.source) = 1
                     /\ Passed(effReceived[e], r.at) = 1
                          => PassedBefore(effReceived[e], r.source, r.at)
                ELSE Passed(effReceived[e], r.source) = 1
                       => PassedBefore(effReceived[e], r.at, r.source)
       /\ \A j \in 1..Len(listeners) :
            listeners[j].at < r.source =>
              IF listeners[j].before < r.who
                THEN /\ Passed(listeners[j].received, r.source) = 1
                     /\ Passed(listeners[j].received, r.at) = 1
                          => PassedBefore(listeners[j].received, r.source, r.at)
                ELSE Passed(listeners[j].received, r.source) = 1
                       => PassedBefore(listeners[j].received, r.at, r.source)

\* C30 witness: of two effects and a listener subscribed between them, the first
\* answered X by Y at once: it was passed X, then Y; the listener and the second effect
\* were passed Y, then X.
C30_Witness ==
  /\ Idle
  /\ Len(effects) = 2 /\ Len(listeners) = 1 /\ listeners[1].before = 1
  /\ \E i \in EffectReentries : reentries[i].who = 1 /\ reentries[i].source = 1
                                /\ reentries[i].at = 2
  /\ effReceived[1] = <<1, 2>>
  /\ listeners[1].received = <<2, 1>>
  /\ effReceived[2] = <<2, 1>>

\* Whether a select subscription holds the selected value of the current state, having
\* been passed the state versions since it was made in their order.
Consistent(sub) ==
  /\ sub.last = SelectorFn(sub.sel, state)
  /\ sub.received = Compress(Seen(sub))

\* The dispatch calls that callbacks of select subscriptions have made.
CallbackReentries == {i \in 1..Len(reentries) : reentries[i].by = "callback"}

\* C29 as claimed: when no call into the store is in progress, every select
\* subscription holds the selected value of the current state and has been passed the
\* state versions in their order.
C29_Consistent ==
  Idle => \A k \in Open(subs) : Consistent(subs[k])

\* C29 amended: when no call into the store is in progress, a select subscription
\* before which no subscription's callback has called dispatch holds the selected value
\* of the current state and has been passed the state versions in their order,
\* whatever the effects have dispatched.
C29_ConsistentBefore ==
  Idle => \A k \in Open(subs) :
            (\A i \in CallbackReentries : reentries[i].who >= k) => Consistent(subs[k])

\* C29 witness: an effect answered X at once, and the callback of the second
\* subscription dispatched INC when it was passed 1; the first and the second hold the
\* current value 2, having been passed 0, 1 and 2.
C29_Witness ==
  /\ Idle
  /\ Len(subs) = 2
  /\ \E i \in EffectReentries : reentries[i].at = 2
  /\ \E i \in CallbackReentries : reentries[i].who = 2 /\ reentries[i].at = 3
  /\ \A k \in 1..2 :
       /\ subs[k].received = <<[k |-> "num", v |-> 0], [k |-> "num", v |-> 1],
                               [k |-> "num", v |-> 2]>>
       /\ Consistent(subs[k])

\* The publications of scan for the n-th action of the channel.
FoldOf(n) ==
  {k \in 1..Len(published) : published[k].cause = "scan" /\ published[k].action = n}

\* The n-th action is folded and known: scan has published a state for it, the state
\* the store gives is that one or a later one and counts the action, and every select
\* subscription of the application made before the action holds the selection of that
\* state or of a later one.
FoldKnown(n) ==
  \E k \in FoldOf(n) :
    /\ \E k2 \in k..Len(published) : state = published[k2].value
    /\ state.slices["a"].val >= Handled(n)
    /\ \A s \in Open(subs) :
         subs[s].atAction < n /\ subs[s].cb.kind # "operator" =>
           \E k2 \in k..Len(published) :
             subs[s].last = SelectorFn(subs[s].sel, published[k2].value)

\* The actions that an effect or a subscription of actions$ is passed in this step.
ReceivedNow ==
  {Last(effReceived'[e]) :
     e \in {x \in 1..Len(effReceived) : Len(effReceived'[x]) > Len(effReceived[x])}}
  \cup {Last(listeners'[j].received) :
          j \in {x \in 1..Len(listeners) :
                   Len(listeners'[x].received) > Len(listeners[x].received)}}

\* C31: at the moment an effect or a subscription of actions$ is passed an action,
\* scan has published the state that folds it and every select subscription has been
\* passed that state or a later one; and the value withLatestFromStore pairs with an
\* action is selected from a state that counts the action.
C31_ReducersFirst ==
  [][ /\ \A n \in ReceivedNow : FoldKnown(n)
      /\ \A i \in 1..Len(pairs') :
           /\ pairs'[i].value.v >= Handled(pairs'[i].source)
           /\ \E k \in FoldOf(pairs'[i].source) :
                \E k2 \in k..Len(published) :
                  pairs'[i].value = SelectorFn("aValue", published[k2].value) ]_vars

\* C31 witness: an effect read the store for an INC and was given a value counting it, a
\* subscription of actions$ was passed that INC, and a callback of a select subscription
\* had dispatched from within a notification.
C31_Witness ==
  /\ \E i \in 1..Len(pairs) :
       /\ actionLog[pairs[i].source].type = "INC"
       /\ pairs[i].value.v = Handled(pairs[i].source)
       /\ \E j \in 1..Len(listeners) : pairs[i].source \in Range(listeners[j].received)
  /\ \E r \in 1..Len(reentries) : reentries[r].by = "callback"
  /\ Len(subs) >= 2

\* The left fold of k's transition over the first n actions of the channel, from the
\* value the slice has at construction or else the descriptor's initial value.
RECURSIVE LeftFold(_, _)
LeftFold(k, n) ==
  IF n = 0 THEN Base(k)
  ELSE ReducerFn(IF k = "a" THEN ReducerA ELSE ReducerB,
                 [ref |-> nextRef, val |-> LeftFold(k, n - 1)],
                 actionLog[n], nextRef).val

\* C32: once no call is in progress, the slice of every reducer registered before the
\* first action holds the left fold of its transition over all the actions of the
\* channel, in their order, from its initial or pre-populated value; and scan has
\* published one state per action, in the order of the channel.
C32_PublishedFold ==
  Idle =>
    /\ \A k \in Keys :
         regAt[k] = 0 =>
           /\ state.slices[k].val = LeftFold(k, Len(actionLog))
           /\ scanAcc.slices[k].val = LeftFold(k, Len(actionLog))
    /\ \A n \in 1..Len(actionLog) : Cardinality(FoldOf(n)) = 1
    /\ \A i, j \in 1..Len(published) :
         (/\ published[i].cause = "scan" /\ published[j].cause = "scan"
          /\ published[i].action < published[j].action) => i < j

\* C32 witness: both reducers were registered before the first action, on a state that
\* came with a value for a; two dispatches and an effect's follow-up were folded, and a
\* holds two steps more than it came with.
C32_Witness ==
  /\ Idle
  /\ pending = <<>>
  /\ regAt["a"] = 0 /\ regAt["b"] = 0
  /\ initialState.slices["a"] # Undef
  /\ Len(actionLog) = 3
  /\ \E n \in 1..3 : actionLog[n].type = "Y"
  /\ \E n \in 1..3 : actionLog[n].type = "INC"
  /\ state.slices["a"].val = Base("a") + 2
  /\ state.slices["b"].val = Base("b") + 1

AddsIn(d) == {a \in {b.add : b \in Bindings} : (d \div a) % 2 = 1}

\* The binding the call of the transition is to apply, if any.
Chosen(type) ==
  IF SpecificMatches(type) # {} THEN {Least(SpecificMatches(type))}
  ELSE IF CatchAlls # {} THEN {Least(CatchAlls)}
  ELSE {}

\* C34: a call of the transition runs at most one handler: the first specific binding
\* whose types hold the action's type, else the first catch-all binding; the result is
\* one new object made by that handler, and with no such binding the very slice given.
C34_FirstMatchWins ==
  redCall # NoCall =>
    LET given == Given(redCall)
        d == redCall.result.val - given.val
    IN /\ Cardinality(AddsIn(d)) <= 1
       /\ AddsIn(d) = {ons[i].add : i \in Chosen(redCall.type)}
       /\ d = 0 \/ d \in {b.add : b \in Bindings}
       /\ IF Chosen(redCall.type) = {}
            THEN redCall.result = given /\ redCall.result.ref = given.ref
            ELSE redCall.result.ref \notin {given.ref, InitialA.ref, Undef.ref}

\* C34 witness: the catch-all binding stands before two bindings for INC, and a call
\* with INC on a slice holding 5 gave a new object holding what the first of the two
\* makes of it.
C34_Witness ==
  /\ Len(ons) = 3
  /\ ons[1].isCatchAll
  /\ SpecificMatches("INC") = {2, 3}
  /\ ons[2].add # ons[3].add
  /\ redCall.type = "INC"
  /\ redCall.slice = [ref |-> 4, val |-> 5]
  /\ redCall.result.val = 5 + ons[2].add
  /\ redCall.result.ref # 4

\* The calls among the first n that invoked the projection function.
Projections(n) == Cardinality({i \in 1..n : selCalls[i].projected})

\* C35: a composed selector remembers the inputs and the result of its last call only:
\* a call invokes the projection function unless its inputs are those of the call just
\* before it, whose result it then returns; so inputs A, B, A make three invocations,
\* and inputs A, A, B, B make two.
C35_MemoDepthOne ==
  /\ \A i \in 1..Len(selCalls) :
       /\ selCalls[i].projected <=> (i = 1 \/ selCalls[i].args # selCalls[i - 1].args)
       /\ ~selCalls[i].projected => selCalls[i].result = selCalls[i - 1].result
  /\ (/\ Len(selCalls) >= 3
      /\ selCalls[1].args = selCalls[3].args
      /\ selCalls[1].args # selCalls[2].args) => Projections(3) = 3
  /\ (/\ Len(selCalls) = 4
      /\ selCalls[1].args = selCalls[2].args
      /\ selCalls[3].args = selCalls[4].args
      /\ selCalls[2].args # selCalls[3].args) => Projections(4) = 2

\* C35 witness: four calls with inputs A, A, B, B, where A and B hold equal content in
\* two objects, invoked the projection function for the first and the third.
C35_Witness ==
  /\ Len(selCalls) = 4
  /\ selCalls[1].args = selCalls[2].args
  /\ selCalls[3].args = selCalls[4].args
  /\ selCalls[1].args[1] = [ref |-> 21, val |-> 1]
  /\ selCalls[3].args[1] = [ref |-> 22, val |-> 1]
  /\ selCalls[1].projected /\ ~selCalls[2].projected
  /\ selCalls[3].projected /\ ~selCalls[4].projected
  /\ selCalls[3].result # selCalls[1].result

\* What a value holds: undefined, or the number of the object.
Content(x) == IF x = Undef THEN -1 ELSE x.val

\* The projection functions applied to the input selectors' results on the state s,
\* with nothing remembered.
Direct(s) ==
  ProjectionFn(<<ProjectionFn(<<CreateFeatureSelector("a", s.slices)>>, 98),
                 CreateFeatureSelector("b", s.slices)>>, 99)

\* C36: what a composed selector returns for a state holds what its projection function
\* makes of its input selectors' results on that state, also when an input selector is
\* a composed selector and for the states the store has published.
C36_Transparent ==
  \A i \in 1..Len(selCalls) :
    /\ Content(selCalls[i].result) = Content(Direct(selCalls[i].state))
    /\ Content(selCalls[i].args[1])
         = Content(ProjectionFn(<<selCalls[i].state.slices["a"]>>, 98))

\* C36 witness: the composed selector was called with a state published by scan that
\* shares slice a with the state of the call before and has a new slice b: the inner
\* selector returned what it remembered, the outer one invoked its projection function.
C36_Witness ==
  \E i \in 2..Len(selCalls) :
    /\ \E k \in 1..Len(published) :
         published[k].cause = "scan" /\ published[k].value = selCalls[i].state
    /\ selCalls[i].state.slices["a"] = selCalls[i - 1].state.slices["a"]
    /\ selCalls[i].state.slices["a"] # Undef
    /\ selCalls[i].state.slices["b"] # selCalls[i - 1].state.slices["b"]
    /\ ~selCalls[i].innerProjected /\ selCalls[i].projected
    /\ Content(selCalls[i].result) # Content(selCalls[i - 1].result)

\* The keys of the slices whose transition, called by scan for the action being folded,
\* returns another object than the slice it was given.
ChangedKeys ==
  {reducers[i].path : i \in {j \in 1..Len(reducers) :
      ReducerFn(reducers[j], scanAcc.slices[reducers[j].path], Folded, nextRef)
        # scanAcc.slices[reducers[j].path]}}

\* C37: when the fold of an action changes a slice, the container published for it
\* holds, at every key whose transition returned the slice it was given and at every
\* key no reducer owns, the very value of the container published before.
C37_ChangedSliceOnly ==
  [][(Folds /\ ChangedKeys # {}) =>
       \A k \in Keys \ ChangedKeys : state'.slices[k] = state.slices[k]]_vars

\* The containers the store has held or passed to a subscriber: the published ones, the
\* current one and scan's accumulator.
Containers == {published[i].value : i \in 1..Len(published)} \cup {state, scanAcc}

\* C38: a container, once published, keeps its keys and its slices: whatever was
\* dispatched or registered since, one container object has one content, and a state
\* that differs from the one before it is another object, never published before.
C38_NeverMutated ==
  /\ \A c, d \in Containers : c.ref = d.ref => c = d
  /\ \A i \in 2..Len(published) :
       published[i].value # published[i - 1].value =>
         \A j \in 1..(i - 1) : published[j].value.ref # published[i].value.ref

\* C38 witness: the store has published the constructor's state, one that
\* registerReducers built, one that scan built for an action that changed a slice, and
\* that one again for an action that changed none; a subscriber of the whole state holds
\* the three objects, each with the content it was published with.
C38_Witness ==
  /\ Idle
  /\ Len(published) = 5
  /\ published[2].cause = "registerReducers"
  /\ published[3].cause = "scan" /\ published[4].cause = "scan"
  /\ published[5].cause = "scan"
  /\ published[4].value # published[3].value
  /\ published[5].value = published[4].value
  /\ \E i \in 1..Len(subs) :
       subs[i].sel = "whole" /\ subs[i].at = 1 /\ Len(subs[i].received) = 4

\* C39: createEffect returns the function it was given with the flag false for a config
\* whose dispatch is false, and true for any other; nothing the application does
\* afterwards changes the flag; and the emissions of a registered function are passed
\* to dispatch unless its flag is false, those of a function without the flag included.
C39_EffectConfig ==
  /\ \A i \in 1..Len(fnCalls) :
       LET c == fnCalls[i] IN
       /\ (c.op = "createEffect" /\ ~c.threw) =>
            c.after = [c.before EXCEPT
                         !.rxEffect = IF c.arg = "false" THEN "false" ELSE "true"]
       /\ Tagged(c.before) => c.after.rxEffect = c.before.rxEffect
  /\ \A i \in 1..Len(emissions) :
       (emissions[i].at # 0) <=> (effects[emissions[i].effect].rxEffect # "false")

\* What the observers of actions$ have been passed, each with the length of the channel
\* when it subscribed: the effects, and the subscriptions made by listen.
Observers ==
  {[received |-> effReceived[e], at |-> effAt[e]] : e \in 1..Len(effects)}
  \cup {[received |-> listeners[j].received, at |-> listeners[j].at] :
          j \in 1..Len(listeners)}

\* C40: an effect or a subscription of actions$ is passed no action that entered the
\* channel before it was made, and, once no call is in progress, has been passed each
\* action that entered it since, once; when it is made it is passed nothing, and the
\* state the store gives then counts every action of the channel.
C40_NoReplay ==
  [][ /\ \A o \in Observers' :
           /\ \A p \in 1..Len(o.received) : o.received[p] > o.at
           /\ Idle' => \A n \in (o.at + 1)..Len(actionLog') : Passed(o.received, n) = 1
      /\ Len(effects') > Len(effects) =>
           /\ effReceived'[Len(effects')] = <<>>
           /\ state'.slices["a"].val = Handled(Len(actionLog))
      /\ Len(listeners') > Len(listeners) =>
           /\ listeners'[Len(listeners')].received = <<>>
           /\ state'.slices["a"].val = Handled(Len(actionLog)) ]_vars

\* C40 witness: an effect registered and a subscription of actions$ made after actions
\* that the reducer counted were passed the actions of a later dispatch, and none of
\* those before.
C40_Witness ==
  /\ Idle
  /\ \E e \in 1..Len(effects) :
       /\ effAt[e] >= 2
       /\ Handled(effAt[e]) >= 1
       /\ effReceived[e] # <<>>
       /\ \A p \in 1..Len(effReceived[e]) : effReceived[e][p] > effAt[e]
  /\ \E j \in 1..Len(listeners) :
       /\ listeners[j].at >= 2
       /\ listeners[j].received # <<>>

=============================================================================
